---- MODULE Spec2Model ----
(***************************************************************************)
(* Network-site inventory of NetTools: the NetworkDatabase class of        *)
(* Scripts/network_db.py and the Flask handlers of Scripts/web_server.py.  *)
(*                                                                         *)
(* Strings that the code builds (addresses) are sequences of one-character *)
(* strings, so that formatting, split('.') and join are computed and not   *)
(* assumed.  An Optional value is a set with at most one element ({} is    *)
(* None / SQL NULL).  A table is the set of its rows.                      *)
(***************************************************************************)
EXTENDS Integers, Sequences, FiniteSets, TLC

(***************************************************************************)
(* Bounds of the model.                                                    *)
(***************************************************************************)
MaxProvisions == 1
MaxDeletes == 2
MaxReads == 1
MaxStore == 999

(***************************************************************************)
(* Inputs.                                                                 *)
(***************************************************************************)
\* a mutant of the allocation list: the loop runs from 90 down
VlanListDescending == <<90, 80, 70, 60, 50, 40, 30, 20, 10>>
\* the fixed allocation set of add_store_with_vlans
VlanList == <<10, 20, 30, 40, 50, 60, 70, 80, 90>>
VlanSet == {VlanList[i] : i \in DOMAIN VlanList}
ServiceList == <<"DNS", "DHCP", "RADIUS1">>
\* the store the database may already hold, the store numbers that the
\* bodies of POST /stores carry (one inside and one outside the supported
\* range) and the store numbers of the URLs
SeedStores == {7}
StoreInputs == {7, 1000}
UrlStores == {7}

(***************************************************************************)
(* Address allocator: NetworkDatabase.generate_ip_for_store.               *)
(***************************************************************************)
DigitChar(d) ==
    CASE d = 0 -> "0" [] d = 1 -> "1" [] d = 2 -> "2" [] d = 3 -> "3"
      [] d = 4 -> "4" [] d = 5 -> "5" [] d = 6 -> "6" [] d = 7 -> "7"
      [] d = 8 -> "8" [] d = 9 -> "9"

RECURSIVE NatStr(_)
NatStr(n) ==
    IF n < 10 THEN <<DigitChar(n)>>
    ELSE NatStr(n \div 10) \o <<DigitChar(n % 10)>>

\* Python's formatting of an int inside an f-string
Str(n) == IF n < 0 THEN <<"-">> \o NatStr(0 - n) ELSE NatStr(n)

\* a mutant of the allocator: the store digit and the VLAN digit are added
\* instead of concatenated
generate_ip_added(store_number, vlan_number) ==
    LET vlan == vlan_number \div 10 IN
    IF store_number < 10
    THEN <<"1", "0", ".", "0", ".">> \o Str(store_number + vlan) \o <<".", "1">>
    ELSE IF store_number < 100
    THEN <<"1", "0", ".">> \o Str(store_number \div 10) \o <<".">>
            \o Str((store_number % 10) + vlan) \o <<".", "1">>
    ELSE <<"1", "0", ".">> \o Str(store_number \div 100)
            \o Str((store_number \div 10) % 10) \o <<".">>
            \o Str((store_number % 10) + vlan) \o <<".", "1">>

\* a mutant of the allocator: the first digit of a three-digit store is
\* taken with // 10 instead of // 100
generate_ip_tens(store_number, vlan_number) ==
    LET vlan == vlan_number \div 10 IN
    IF store_number < 10
    THEN <<"1", "0", ".", "0", ".">> \o Str(store_number) \o Str(vlan) \o <<".", "1">>
    ELSE IF store_number < 100
    THEN <<"1", "0", ".">> \o Str(store_number \div 10) \o <<".">>
            \o Str(store_number % 10) \o Str(vlan) \o <<".", "1">>
    ELSE <<"1", "0", ".">> \o Str(store_number \div 10)
            \o Str((store_number \div 10) % 10) \o <<".">>
            \o Str(store_number % 10) \o Str(vlan) \o <<".", "1">>

generate_ip_for_store(store_number, vlan_number) ==
    LET vlan == vlan_number \div 10 IN
    IF store_number < 10
    THEN <<"1", "0", ".", "0", ".">> \o Str(store_number) \o Str(vlan) \o <<".", "1">>
    ELSE IF store_number < 100
    THEN LET first_digit == store_number \div 10
             second_digit == store_number % 10
         IN <<"1", "0", ".">> \o Str(first_digit) \o <<".">>
               \o Str(second_digit) \o Str(vlan) \o <<".", "1">>
    ELSE LET first_digit == store_number \div 100
             second_digit == (store_number \div 10) % 10
             third_digit == store_number % 10
         IN <<"1", "0", ".">> \o Str(first_digit) \o Str(second_digit) \o <<".">>
               \o Str(third_digit) \o Str(vlan) \o <<".", "1">>

\* str.split('.')
RECURSIVE Split(_)
Split(s) ==
    IF \A i \in DOMAIN s : s[i] # "."
    THEN <<s>>
    ELSE LET k == CHOOSE i \in DOMAIN s :
                      s[i] = "." /\ \A j \in 1..(i - 1) : s[j] # "."
         IN <<SubSeq(s, 1, k - 1)>> \o Split(SubSeq(s, k + 1, Len(s)))

\* '.'.join(parts)
RECURSIVE Join(_)
Join(parts) ==
    IF Len(parts) = 0 THEN <<>>
    ELSE IF Len(parts) = 1 THEN parts[1]
    ELSE parts[1] \o <<".">> \o Join(Tail(parts))

\* a mutant of the switch address: the host is appended to the fourth part
SwitchIpAppended(store_number, host) ==
    LET switch_base_ip == generate_ip_for_store(store_number, 60)
        switch_ip_parts == Split(switch_base_ip)
    IN Join([switch_ip_parts EXCEPT ![4] = @ \o host])
\* the switch management address of add_store_with_vlans: the VLAN-60
\* address with its fourth part overwritten by host
SwitchIp(store_number, host) ==
    LET switch_base_ip == generate_ip_for_store(store_number, 60)
        switch_ip_parts == Split(switch_base_ip)
    IN Join([switch_ip_parts EXCEPT ![4] = host])

\* f"vlan{vlan_num}_svi"
SviName(vlan_num) == <<"v", "l", "a", "n">> \o Str(vlan_num) \o <<"_", "s", "v", "i">>

Netmask == <<"2","5","5",".","2","5","5",".","2","5","5",".","0">>

\* the site name and the address that requests and stored sites carry
StoreName == <<"S", "t", "o", "r", "e">>
MainSt == <<"1", "2", "3", " ", "M", "a", "i", "n", " ", "S", "t">>
OakAve == <<"4", "5", " ", "O", "a", "k", " ", "A", "v", "e">>

(***************************************************************************)
(* State.                                                                  *)
(***************************************************************************)
VARIABLES
    \* the tables of network_infrastructure.db
    sites, network_management, vlan_configs, switch_ips, required_services,
    firewall_ips,
    \* POST /stores (add_store -> add_store_with_vlans): position, request
    \* body, generated site_id, loop index, return value, response status
    p_pc, p_data, p_site_id, p_vlan_idx, p_result, p_status,
    \* history of the running call: a step failed; the store number was
    \* present when the call began; a DELETE of the same store number
    \* succeeded while the call ran; number of calls; uuid4 counter
    p_failed, p_existed, p_overlap, p_calls, next_uuid,
    \* DELETE /stores/{n}: number of requests, and the store number and the
    \* status of the last one that was answered
    d_calls, d_store, d_status,
    \* get_complete_site_info: position, argument, locals, return value,
    \* number of calls, and whether a provisioning was in flight meanwhile
    r_pc, r_store, r_site, r_vlans, r_nm_row, r_switch_ips, r_firewall_ips,
    r_result, r_calls, r_inflight,
    \* one application of the allocator: the store number, and the address
    \* of each VLAN of the allocation set once it is generated
    a_store, a_ips,
    \* one call of generate_ip_for_store with arbitrary arguments: the
    \* arguments and what the call gave back
    g_store, g_vlan, g_result,
    \* the other handlers of web_server.py: the last handler that answered,
    \* its arguments, its status and body, the number of answers, the rows
    \* that its statement matched, the connections it left open, and the
    \* requests that have run their SELECT and not yet their write
    h_op, h_args, h_status, h_body, h_calls, h_prev, h_conns, h_pending

db == <<sites, network_management, vlan_configs, switch_ips, required_services,
       firewall_ips>>
pvars == <<p_pc, p_data, p_site_id, p_vlan_idx, p_result, p_status,
           p_failed, p_existed, p_overlap, p_calls, next_uuid>>
dvars == <<d_calls, d_store, d_status>>
rvars == <<r_pc, r_store, r_site, r_vlans, r_nm_row, r_switch_ips,
           r_firewall_ips, r_result, r_calls, r_inflight>>
avars == <<a_store, a_ips>>
gvars == <<g_store, g_vlan, g_result>>
hvars == <<h_op, h_args, h_status, h_body, h_calls, h_prev, h_conns, h_pending>>
vars == <<db, pvars, dvars, rvars, avars, gvars, hvars>>

(***************************************************************************)
(* Rows.                                                                   *)
(***************************************************************************)
\* dataclass SiteInfo
SiteInfo(site_id, site_name, store_number, address, latitude, longitude) ==
    [site_id |-> site_id, site_name |-> site_name, store_number |-> store_number,
     address |-> address, latitude |-> latitude, longitude |-> longitude,
     wireless_platform |-> "Mist", business_unit |-> "Store"]

\* dataclass VLANConfig
VLANConfig(site_id, vlan_number, svi_name, ip_address, netmask, gateway) ==
    [site_id |-> site_id, vlan_number |-> vlan_number, svi_name |-> svi_name,
     ip_address |-> ip_address, netmask |-> netmask, gateway |-> gateway]

\* a mutant of the VLANConfig of provisioning: the gateway is the netmask
StoreVlanConfigNoGateway(store_number, site_id, vlan_num) ==
    LET ip_address == generate_ip_for_store(store_number, vlan_num)
    IN VLANConfig(site_id, vlan_num, SviName(vlan_num), ip_address, Netmask, Netmask)
\* the VLANConfig that add_store_with_vlans builds for one vlan_num
StoreVlanConfig(store_number, site_id, vlan_num) ==
    LET ip_address == generate_ip_for_store(store_number, vlan_num)
    IN VLANConfig(site_id, vlan_num, SviName(vlan_num), ip_address, Netmask, ip_address)

\* a mutant of the sites INSERT: the store number is written to the row
SiteRowWithStoreNumber(site_info) ==
    [site_id |-> site_info.site_id, store_number |-> {site_info.store_number},
     site_name |-> site_info.site_name, address |-> site_info.address,
     latitude |-> site_info.latitude, longitude |-> site_info.longitude]

\* the sites row that add_site inserts: the column list of the INSERT has
\* no store_number, so the row's store_number is NULL
SiteRow(site_info) ==
    [site_id |-> site_info.site_id, store_number |-> {},
     site_name |-> site_info.site_name, address |-> site_info.address,
     latitude |-> site_info.latitude, longitude |-> site_info.longitude]

\* the network_management row that add_site inserts
NmRow(site_info) ==
    [site_id |-> site_info.site_id,
     wireless_platform |-> site_info.wireless_platform,
     business_unit |-> site_info.business_unit]

\* INSERT OR REPLACE INTO vlan_configs: the row with the same
\* (site_id, vlan_number) is replaced
\* a mutant of the VLAN upsert: INSERT OR IGNORE, the stored row wins
UpsertVlanIgnore(tbl, row) ==
    IF \E r \in tbl : r.site_id = row.site_id /\ r.vlan_number = row.vlan_number
    THEN tbl ELSE tbl \cup {row}
UpsertVlan(tbl, row) ==
    {r \in tbl : ~(r.site_id = row.site_id /\ r.vlan_number = row.vlan_number)}
        \cup {row}

\* INSERT OR REPLACE INTO switch_ips (site_id, switch_ip): switch_type takes
\* the column default
UpsertSwitchIp(tbl, site_id, switch_ip) ==
    {r \in tbl : ~(r.site_id = site_id /\ r.switch_ip = switch_ip)}
        \cup {[site_id |-> site_id, switch_ip |-> switch_ip, switch_type |-> "access"]}

\* INSERT OR REPLACE INTO required_services, for each of the three services
UpsertServices(tbl, site_id) ==
    tbl \cup {[site_id |-> site_id, service_name |-> ServiceList[i]] :
                 i \in DOMAIN ServiceList}

(***************************************************************************)
(* The database the program is opened on.  NetworkDatabase opens an        *)
(* existing file; it holds the stores in seeded, each a complete store as  *)
(* section 3 of the specification describes it (store_number set, nine     *)
(* VLANs, two switch addresses, three services).                           *)
(***************************************************************************)
SeedId(n) == <<"seed", n>>
SeedAddress(n) == IF n = 7 THEN MainSt ELSE OakAve
SeedSites(seeded) ==
    {[site_id |-> SeedId(n), store_number |-> {n}, site_name |-> StoreName,
      address |-> SeedAddress(n), latitude |-> 29, longitude |-> -98] : n \in seeded}
SeedNm(seeded) ==
    {[site_id |-> SeedId(n), wireless_platform |-> "Mist", business_unit |-> "Store"] :
        n \in seeded}
SeedVlans(seeded) ==
    {StoreVlanConfig(n, SeedId(n), v) : n \in seeded, v \in VlanSet}
SeedSwitchIps(seeded) ==
    {[site_id |-> SeedId(n), switch_ip |-> SwitchIp(n, h), switch_type |-> "access"] :
        n \in seeded, h \in {<<"3", "0">>, <<"4", "1">>}}
SeedServices(seeded) == UNION {UpsertServices({}, SeedId(n)) : n \in seeded}
\* the firewall of a seeded store has the VLAN-60 address of the store
SeedFirewallIps(seeded) ==
    {[site_id |-> SeedId(n), firewall_ip |-> generate_ip_for_store(n, 60)] :
        n \in seeded}

(***************************************************************************)
(* Queries of NetworkDatabase.  Each method runs its statements in try and *)
(* finally, without except: the connection is closed and a                 *)
(* sqlite3.OperationalError of a statement leaves the method.  The result  *)
(* of a method is the set of its outcomes: the values it may return (one   *)
(* per row that fetchone() may give) and the error it may raise.           *)
(***************************************************************************)
Returns(value) == [raised |-> {}, value |-> value]
Raises == [raised |-> {"OperationalError"}, value |-> {}]

\* row[6] or "Mist", row[7] or "Store": a falsy value gives the default (a
\* stored NULL is written as the empty string)
OrDefault(value, default) == IF value = "" THEN default ELSE value

\* SELECT ... FROM sites s LEFT JOIN network_management nm ... WHERE
\* s.store_number = ? : a NULL store_number matches no argument, and a site
\* without network_management row has NULL in the columns of nm
SiteJoinRows(store_number) ==
    LET matching == {s \in sites : store_number \in s.store_number}
        nmOf(s) == {nm \in network_management : nm.site_id = s.site_id}
    IN {[site_id |-> s.site_id, site_name |-> s.site_name,
         store_number |-> store_number, address |-> s.address,
         latitude |-> s.latitude, longitude |-> s.longitude,
         wireless_platform |-> "Mist", business_unit |-> "Store"] :
            s \in {m \in matching : nmOf(m) = {}}}
       \cup
       {[site_id |-> x[1].site_id, site_name |-> x[1].site_name,
         store_number |-> store_number, address |-> x[1].address,
         latitude |-> x[1].latitude, longitude |-> x[1].longitude,
         wireless_platform |-> OrDefault(x[2].wireless_platform, "Mist"),
         business_unit |-> OrDefault(x[2].business_unit, "Store")] :
            x \in {y \in matching \X network_management : y[2].site_id = y[1].site_id}}

get_site_by_store_number(store_number) ==
    (IF SiteJoinRows(store_number) = {} THEN {Returns({})}
     ELSE {Returns({row}) : row \in SiteJoinRows(store_number)})
      \cup {Raises}

\* SELECT ... FROM vlan_configs WHERE site_id = ?
VlansOf(site_id) == {v \in vlan_configs : v.site_id = site_id}

get_vlans_for_site(site_id) == {Returns(VlansOf(site_id)), Raises}

\* the statements of get_network_management
NmRowsOf(site_id) == {nm \in network_management : nm.site_id = site_id}
SwitchIpsOf(site_id) == {r.switch_ip : r \in {x \in switch_ips : x.site_id = site_id}}
FirewallIpsOf(site_id) ==
    {r.firewall_ip : r \in {x \in firewall_ips : x.site_id = site_id}}
ServicesOf(site_id) ==
    {r.service_name : r \in {x \in required_services : x.site_id = site_id}}

\* dataclass NetworkManagement
NetworkManagement(site_id, nm_row, ips, firewalls, services) ==
    [site_id |-> site_id, wireless_platform |-> nm_row.wireless_platform,
     switch_ips |-> ips, firewall_ips |-> firewalls,
     required_services |-> services, business_unit |-> nm_row.business_unit]

(***************************************************************************)
(* Initial state.                                                          *)
(***************************************************************************)
NoData == [store_number |-> 0, site_name |-> <<>>, address |-> <<>>,
           latitude |-> 0, longitude |-> 0]
NoId == <<"none", 0>>

InitRequests ==
    /\ p_pc = "idle" /\ p_data = NoData /\ p_site_id = NoId /\ p_vlan_idx = 1
    /\ p_result = {} /\ p_status = 0 /\ p_failed = FALSE /\ p_existed = FALSE
    /\ p_overlap = FALSE /\ p_calls = 0 /\ next_uuid = 1
    /\ d_calls = 0 /\ d_store = 0 /\ d_status = 0
    /\ r_pc = "idle" /\ r_store = 0 /\ r_site = {} /\ r_vlans = {}
    /\ r_nm_row = {} /\ r_switch_ips = {} /\ r_firewall_ips = {}
    /\ r_result = {} /\ r_calls = 0
    /\ r_inflight = FALSE

InitAlloc == a_store = 1 /\ a_ips = <<>>

InitGenerate == g_store = 1 /\ g_vlan = 10 /\ g_result = {}

NoRequest == [store_number |-> 0]

InitApi ==
    /\ h_op = "none" /\ h_args = NoRequest /\ h_status = 0 /\ h_body = {}
    /\ h_calls = 0 /\ h_prev = {} /\ h_conns = 0 /\ h_pending = {}

InitDb(seeded) ==
    /\ sites = SeedSites(seeded)
    /\ network_management = SeedNm(seeded)
    /\ vlan_configs = SeedVlans(seeded)
    /\ switch_ips = SeedSwitchIps(seeded)
    /\ required_services = SeedServices(seeded)
    /\ firewall_ips = SeedFirewallIps(seeded)

Init ==
    /\ \E seeded \in SUBSET SeedStores : InitDb(seeded)
    /\ InitRequests
    /\ InitAlloc
    /\ InitGenerate
    /\ InitApi

(***************************************************************************)
(* POST /stores: add_store calls add_store_with_vlans, which commits each  *)
(* step on a connection of its own; other requests run between the steps.  *)
(* A statement may raise a storage error; the method that issued it then   *)
(* catches the error and returns False.  get_connection stands before the  *)
(* try block of each method: when it raises, the error leaves              *)
(* add_store_with_vlans and the except clause of add_store answers 500.    *)
(***************************************************************************)
Outcomes == {"True", "False", "raised"}

InFlight == p_pc \notin {"idle", "done"}

\* add_store_with_vlans returns; add_store maps True to 201 and False to 500
Return(result) ==
    /\ p_result' = {result}
    /\ p_status' = IF result THEN 201 ELSE 500
    /\ p_pc' = "done"

\* an error leaves add_store_with_vlans: nothing is returned, add_store
\* answers 500
Raise ==
    /\ p_result' = {}
    /\ p_status' = 500
    /\ p_pc' = "done"

\* the request arrives: uuid4 gives a new site_id, SiteInfo is built
add_store(data) ==
    /\ p_pc \in {"idle", "done"}
    /\ p_calls < MaxProvisions
    /\ p_calls' = p_calls + 1
    /\ p_data' = data
    /\ p_site_id' = <<"uuid", next_uuid>>
    /\ next_uuid' = next_uuid + 1
    /\ p_vlan_idx' = 1
    /\ p_result' = {}
    /\ p_status' = 0
    /\ p_failed' = FALSE
    /\ p_existed' = (\E s \in sites : data.store_number \in s.store_number)
    /\ p_overlap' = FALSE
    /\ p_pc' = "add_site"
    /\ UNCHANGED <<db, dvars, rvars, avars, gvars, hvars>>

\* add_site: both INSERTs and the commit, or nothing and False
add_site ==
    /\ p_pc = "add_site"
    /\ LET site_info == SiteInfo(p_site_id, p_data.site_name, p_data.store_number,
                                 p_data.address, p_data.latitude, p_data.longitude)
       IN \E outcome \in Outcomes :
            IF outcome = "True" /\ ~(\E s \in sites : s.site_id = site_info.site_id)
            THEN /\ sites' = sites \cup {SiteRow(site_info)}
                 /\ network_management' = network_management \cup {NmRow(site_info)}
                 /\ p_pc' = "add_vlan_config"
                 /\ UNCHANGED <<p_result, p_status, p_failed>>
            ELSE /\ IF outcome = "raised" THEN Raise ELSE Return(FALSE)
                 /\ p_failed' = TRUE
                 /\ UNCHANGED <<firewall_ips, sites, network_management>>
    /\ UNCHANGED <<firewall_ips, vlan_configs, switch_ips, required_services, p_data, p_site_id,
                   p_vlan_idx, p_existed, p_overlap, p_calls, next_uuid,
                   dvars, rvars, avars, gvars, hvars>>

\* one iteration of the loop over the nine VLAN numbers
add_vlan_config ==
    /\ p_pc = "add_vlan_config"
    /\ \E outcome \in Outcomes :
         IF outcome = "True"
         THEN /\ vlan_configs' = UpsertVlan(vlan_configs,
                     StoreVlanConfig(p_data.store_number, p_site_id, VlanList[p_vlan_idx]))
              /\ IF p_vlan_idx = Len(VlanList)
                 THEN p_pc' = "add_switch_ip1" /\ UNCHANGED p_vlan_idx
                 ELSE p_vlan_idx' = p_vlan_idx + 1 /\ UNCHANGED p_pc
              /\ UNCHANGED <<p_result, p_status, p_failed>>
         ELSE /\ IF outcome = "raised" THEN Raise ELSE Return(FALSE)
              /\ p_failed' = TRUE
              /\ UNCHANGED <<firewall_ips, vlan_configs, p_vlan_idx>>
    /\ UNCHANGED <<firewall_ips, sites, network_management, switch_ips,
                   required_services, p_data,
                   p_site_id, p_existed, p_overlap, p_calls, next_uuid,
                   dvars, rvars, avars, gvars, hvars>>

\* self.add_switch_ip(site_id, switch_ip): the return value is not read
add_switch_ip(pc, host, next_pc) ==
    /\ p_pc = pc
    /\ \E outcome \in Outcomes :
         IF outcome = "True"
         THEN /\ switch_ips' = UpsertSwitchIp(switch_ips, p_site_id,
                                              SwitchIp(p_data.store_number, host))
              /\ p_pc' = next_pc
              /\ UNCHANGED <<p_failed, p_result, p_status>>
         ELSE IF outcome = "False"
         THEN /\ p_failed' = TRUE
              /\ p_pc' = next_pc
              /\ UNCHANGED <<switch_ips, p_result, p_status>>
         ELSE /\ Raise
              /\ p_failed' = TRUE
              /\ UNCHANGED switch_ips
    /\ UNCHANGED <<firewall_ips, sites, network_management, vlan_configs,
                   required_services, p_data,
                   p_site_id, p_vlan_idx, p_existed, p_overlap,
                   p_calls, next_uuid, dvars, rvars, avars, gvars, hvars>>

add_switch_ip1 == add_switch_ip("add_switch_ip1", <<"3", "0">>, "add_switch_ip2")
add_switch_ip2 == add_switch_ip("add_switch_ip2", <<"4", "1">>, "add_services")

\* the three service INSERTs and one commit, or nothing and False
add_services ==
    /\ p_pc = "add_services"
    /\ \E outcome \in Outcomes :
         IF outcome = "True"
         THEN /\ required_services' = UpsertServices(required_services, p_site_id)
              /\ Return(TRUE)
              /\ UNCHANGED p_failed
         ELSE /\ IF outcome = "raised" THEN Raise ELSE Return(FALSE)
              /\ p_failed' = TRUE
              /\ UNCHANGED required_services
    /\ UNCHANGED <<firewall_ips, sites, network_management, vlan_configs, switch_ips, p_data,
                   p_site_id, p_vlan_idx, p_existed, p_overlap, p_calls, next_uuid,
                   dvars, rvars, avars, gvars, hvars>>

(***************************************************************************)
(* The answers of the handlers of web_server.py.  The server runs each     *)
(* request in a thread of its own; a handler that reads with one statement *)
(* and writes with the next holds no lock between the two, so other        *)
(* requests commit in between.                                             *)
(***************************************************************************)
MaxRequests == 2

\* the handlers that open a connection of their own: conn.close() stands
\* before each return of the try block and in no except clause
OwnConnection ==
    {"add_vlan", "update_vlan", "update_store", "post_switch_ip", "update_switch_ip",
     "delete_switch_ip", "get_store_switch_ips", "search", "dashboard",
     "delete_store"}

\* the connections that the operation opened and has not closed when it
\* returns: the methods of NetworkDatabase close in a finally clause, and a
\* handler whose db.get_connection() raised has opened none
ConnectionsLeft(op, status, connected) ==
    IF op \in OwnConnection /\ status = 500 /\ connected THEN 1 ELSE 0

\* the requests that have arrived: those answered, those between their
\* SELECT and their write, and the one that reads with get_complete_site_info
Started == h_calls + Cardinality(h_pending) + (IF r_pc = "idle" THEN 0 ELSE 1)

\* the handler answers; h_prev keeps the rows that the request's statement
\* matched before it ran
AnswerWith(op, args, status, body, matched, connected) ==
    /\ h_conns' = ConnectionsLeft(op, status, connected)
    /\ h_calls' = h_calls + 1
    /\ h_prev' = matched
    /\ h_op' = op
    /\ h_args' = args
    /\ h_status' = status
    /\ h_body' = body

\* the handler answers after db.get_connection() returned a connection
Answer(op, args, status, body, matched) ==
    AnswerWith(op, args, status, body, matched, TRUE)

\* a request arrives and is answered before another request runs
Respond(op, args, status, body, matched) ==
    /\ Started < MaxRequests
    /\ Answer(op, args, status, body, matched)

\* a request arrives and the except clause answers 500: db.get_connection()
\* raised, or it returned a connection and a later line of the try block
\* raised
Fails(op, args, body, matched) ==
    /\ Started < MaxRequests
    /\ \E connected \in BOOLEAN : AnswerWith(op, args, 500, body, matched, connected)

\* a request arrives and its SELECT finds site_id: the write is still to run
Suspend(op, args, site_id) ==
    /\ Started < MaxRequests
    /\ h_pending' = h_pending \cup
           {[id |-> Started + 1, op |-> op, args |-> args, site_id |-> site_id]}
    /\ UNCHANGED <<h_op, h_args, h_status, h_body, h_calls, h_prev, h_conns>>

\* the requests of handler op whose write is still to run
Pending(op) == {req \in h_pending : req.op = op}

ApiFrame == UNCHANGED <<pvars, dvars, rvars, avars, gvars, h_pending>>

\* SELECT site_id FROM sites WHERE store_number = ?
SiteIdsByStore(store_number) ==
    {s.site_id : s \in {x \in sites : store_number \in x.store_number}}

(***************************************************************************)
(* DELETE /stores/{store_number}: the SELECT of the site_id, then the      *)
(* DELETE and the commit.                                                  *)
(***************************************************************************)
\* get_connection is sqlite3.connect(db_path) and nothing else: SQLite
\* leaves foreign-key enforcement, and with it ON DELETE CASCADE, off on a
\* new connection until PRAGMA foreign_keys = ON is issued
foreign_keys == FALSE

\* the rows of a child table that DELETE FROM sites WHERE site_id = ? leaves
AfterSiteDelete(tbl, site_id) ==
    IF foreign_keys THEN {r \in tbl : r.site_id # site_id} ELSE tbl

DeleteFrame ==
    UNCHANGED <<p_pc, p_data, p_site_id, p_vlan_idx, p_result, p_status, p_failed,
                p_existed, p_calls, next_uuid, rvars, avars, gvars>>

\* the request arrives: SELECT site_id FROM sites WHERE store_number = ?
\* and fetchone(); no row is answered 404, an error of the SELECT 500
delete_store(store_number) ==
    /\ d_calls < MaxDeletes
    /\ d_calls' = d_calls + 1
    /\ LET args == [store_number |-> store_number]
           result == SiteIdsByStore(store_number)
       IN \E ok \in BOOLEAN :
            IF ~ok
            THEN /\ Fails("delete_store", args, {}, {})
                 /\ d_store' = store_number /\ d_status' = 500
                 /\ UNCHANGED h_pending
            ELSE IF result = {}
            THEN /\ Respond("delete_store", args, 404, {}, {})
                 /\ d_store' = store_number /\ d_status' = 404
                 /\ UNCHANGED h_pending
            ELSE /\ \E site_id \in result : Suspend("delete_store", args, site_id)
                 /\ UNCHANGED <<d_store, d_status>>
    /\ UNCHANGED <<db, p_overlap>>
    /\ DeleteFrame

\* DELETE FROM sites WHERE site_id = ? and the commit: the answer is 200
\* whether or not the statement found the row
delete_store_commit ==
    /\ \E req \in Pending("delete_store"), ok \in BOOLEAN :
         /\ h_pending' = h_pending \ {req}
         /\ d_store' = req.args.store_number
         /\ IF ok
            THEN /\ sites' = {s \in sites : s.site_id # req.site_id}
                 /\ network_management' = AfterSiteDelete(network_management, req.site_id)
                 /\ vlan_configs' = AfterSiteDelete(vlan_configs, req.site_id)
                 /\ switch_ips' = AfterSiteDelete(switch_ips, req.site_id)
                 /\ required_services' = AfterSiteDelete(required_services, req.site_id)
                 /\ firewall_ips' = AfterSiteDelete(firewall_ips, req.site_id)
                 /\ Answer("delete_store", req.args, 200, {},
                           {s \in sites : s.site_id = req.site_id})
                 /\ d_status' = 200
                 /\ p_overlap' = (p_overlap \/
                                  (InFlight /\ p_data.store_number = req.args.store_number))
            ELSE /\ Answer("delete_store", req.args, 500, {}, {})
                 /\ d_status' = 500
                 /\ UNCHANGED <<db, p_overlap>>
    /\ UNCHANGED d_calls
    /\ DeleteFrame

(***************************************************************************)
(* get_complete_site_info(store_number), as GET /stores/{n},               *)
(* GET /stores/{n}/details and GET /stores/{n}/vlans call it: every query  *)
(* is a statement of its own, and writers commit between them.  An error   *)
(* of a statement leaves get_complete_site_info (r_pc = "raised").         *)
(***************************************************************************)
ReadFrame == UNCHANGED <<db, pvars, dvars, avars, gvars, hvars>>

\* site = self.get_site_by_store_number(store_number); None ends the call
read_site(store_number) ==
    /\ r_pc \in {"idle", "done", "raised"}
    /\ r_calls < MaxReads
    /\ h_calls + Cardinality(h_pending) < MaxRequests
    /\ r_calls' = r_calls + 1
    /\ r_store' = store_number
    /\ r_inflight' = InFlight
    /\ \E site \in get_site_by_store_number(store_number) :
         /\ r_site' = site.value
         /\ r_pc' = IF site.raised # {} THEN "raised"
                    ELSE IF site.value = {} THEN "done" ELSE "get_vlans"
    /\ r_vlans' = {} /\ r_nm_row' = {} /\ r_switch_ips' = {} /\ r_firewall_ips' = {}
    /\ r_result' = {}
    /\ ReadFrame

\* vlans = self.get_vlans_for_site(site.site_id)
read_vlans ==
    /\ r_pc = "get_vlans"
    /\ \E site \in r_site : \E vlans \in get_vlans_for_site(site.site_id) :
         /\ r_vlans' = vlans.value
         /\ r_pc' = IF vlans.raised # {} THEN "raised" ELSE "nm_row"
    /\ r_inflight' = (r_inflight \/ InFlight)
    /\ UNCHANGED <<r_store, r_site, r_nm_row, r_switch_ips, r_firewall_ips, r_result,
                   r_calls>>
    /\ ReadFrame

\* the dictionary that get_complete_site_info returns
SiteInfoDict(site, vlans, net_mgmt) ==
    [site |-> site, vlans |-> vlans, network_management |-> net_mgmt]

\* get_network_management: the network_management row; None if there is none
read_nm_row ==
    /\ r_pc = "nm_row"
    /\ \E site \in r_site, ok \in BOOLEAN :
         IF ~ok
         THEN r_pc' = "raised" /\ UNCHANGED <<r_nm_row, r_result>>
         ELSE IF NmRowsOf(site.site_id) = {}
         THEN /\ r_result' = {SiteInfoDict(site, r_vlans, {})}
              /\ r_pc' = "done"
              /\ UNCHANGED r_nm_row
         ELSE /\ \E nm_row \in NmRowsOf(site.site_id) : r_nm_row' = {nm_row}
              /\ r_pc' = "nm_switch_ips"
              /\ UNCHANGED r_result
    /\ r_inflight' = (r_inflight \/ InFlight)
    /\ UNCHANGED <<r_store, r_site, r_vlans, r_switch_ips, r_firewall_ips, r_calls>>
    /\ ReadFrame

\* get_network_management: SELECT switch_ip FROM switch_ips
read_switch_ips ==
    /\ r_pc = "nm_switch_ips"
    /\ \E site \in r_site, ok \in BOOLEAN :
         IF ok
         THEN r_switch_ips' = SwitchIpsOf(site.site_id) /\ r_pc' = "nm_firewall_ips"
         ELSE r_pc' = "raised" /\ UNCHANGED r_switch_ips
    /\ r_inflight' = (r_inflight \/ InFlight)
    /\ UNCHANGED <<r_store, r_site, r_vlans, r_nm_row, r_firewall_ips, r_result,
                   r_calls>>
    /\ ReadFrame

\* get_network_management: SELECT firewall_ip FROM firewall_ips
read_firewall_ips ==
    /\ r_pc = "nm_firewall_ips"
    /\ \E site \in r_site, ok \in BOOLEAN :
         IF ok
         THEN r_firewall_ips' = FirewallIpsOf(site.site_id) /\ r_pc' = "nm_services"
         ELSE r_pc' = "raised" /\ UNCHANGED r_firewall_ips
    /\ r_inflight' = (r_inflight \/ InFlight)
    /\ UNCHANGED <<r_store, r_site, r_vlans, r_nm_row, r_switch_ips, r_result, r_calls>>
    /\ ReadFrame

\* get_network_management: SELECT service_name FROM required_services, and
\* the dictionary that get_complete_site_info returns
read_services ==
    /\ r_pc = "nm_services"
    /\ \E site \in r_site, nm_row \in r_nm_row, ok \in BOOLEAN :
         IF ok
         THEN /\ r_result' =
                   {SiteInfoDict(site, r_vlans,
                        {NetworkManagement(site.site_id, nm_row, r_switch_ips,
                                           r_firewall_ips, ServicesOf(site.site_id))})}
              /\ r_pc' = "done"
         ELSE r_pc' = "raised" /\ UNCHANGED r_result
    /\ r_inflight' = (r_inflight \/ InFlight)
    /\ UNCHANGED <<r_store, r_site, r_vlans, r_nm_row, r_switch_ips, r_firewall_ips,
                   r_calls>>
    /\ ReadFrame

(***************************************************************************)
(* The inventory under concurrent requests.                                *)
(***************************************************************************)
StoreBodies ==
    {[store_number |-> n, site_name |-> StoreName, address |-> MainSt,
      latitude |-> 29, longitude |-> -98] : n \in StoreInputs}

Next ==
    \/ \E data \in StoreBodies : add_store(data)
    \/ add_site
    \/ add_vlan_config
    \/ add_switch_ip1
    \/ add_switch_ip2
    \/ add_services
    \/ \E n \in UrlStores : delete_store(n)
    \/ delete_store_commit

Spec == Init /\ [][Next]_vars

(***************************************************************************)
(* get_complete_site_info next to the provisioning of new stores.          *)
(***************************************************************************)
NextRead ==
    \/ \E data \in StoreBodies : add_store(data)
    \/ add_site
    \/ add_vlan_config
    \/ add_switch_ip1
    \/ add_switch_ip2
    \/ add_services
    \/ \E n \in UrlStores : read_site(n)
    \/ read_vlans
    \/ read_nm_row
    \/ read_switch_ips
    \/ read_firewall_ips
    \/ read_services

SpecRead == Init /\ [][NextRead]_vars

(***************************************************************************)
(* The allocator on its own: a store number of the supported range is      *)
(* drawn, and Allocate generates its nine addresses.                       *)
(***************************************************************************)
InitAllocator ==
    /\ InitDb({})
    /\ InitRequests
    /\ InitGenerate
    /\ InitApi
    /\ a_store \in 1..MaxStore
    /\ a_ips = <<>>

Allocate ==
    /\ a_ips = <<>>
    /\ a_ips' = [v \in VlanSet |-> generate_ip_for_store(a_store, v)]
    /\ UNCHANGED <<a_store, db, pvars, dvars, rvars, gvars, hvars>>

NextAlloc == Allocate

SpecAlloc == InitAllocator /\ [][NextAlloc]_vars

(***************************************************************************)
(* One call of generate_ip_for_store with arguments drawn around the end   *)
(* of the supported range and inside and outside the allocation set.  The  *)
(* function has no raise statement: every call returns a string.           *)
(***************************************************************************)
GenStores == (MaxStore - 5)..(MaxStore + 5)
GenVlans == {0, 5, 10, 15, 90, 100}

InitGenerator ==
    /\ InitDb({})
    /\ InitRequests
    /\ InitAlloc
    /\ InitApi
    /\ g_store \in GenStores
    /\ g_vlan \in GenVlans
    /\ g_result = {}

Generate ==
    /\ g_result = {}
    /\ g_result' = {[raised |-> {}, value |-> {generate_ip_for_store(g_store, g_vlan)}]}
    /\ UNCHANGED <<g_store, g_vlan, db, pvars, dvars, rvars, avars, hvars>>

NextGenerate == Generate

SpecGenerate == InitGenerator /\ [][NextGenerate]_vars

(***************************************************************************)
(* The handlers of web_server.py that work on one connection.  A statement *)
(* may raise a storage error (ok = FALSE): nothing is committed and the    *)
(* handler answers 500.                                                    *)
(***************************************************************************)
\* request bodies and URL arguments
ApiVlans == {10, 100}
IpA == <<"1", "0", ".", "0", ".", "7", "2", ".", "9">>
\* an address that the seeded store 8 holds as a switch IP
IpB == <<"1", "0", ".", "0", ".", "8", "6", ".", "3", "0">>
VlanBodies ==
    {[store_number |-> n, vlan_number |-> v, svi_name |-> SviName(v),
      ip_address |-> ip, netmask |-> Netmask, gateway |-> ip] :
        n \in UrlStores, v \in ApiVlans, ip \in {IpA, IpB}}
ApiSwitchIps == {SwitchIp(n, <<"3", "0">>) : n \in UrlStores} \cup {IpB}
SwitchBodies ==
    {[ip_address |-> ip, switch_type |-> t] : ip \in ApiSwitchIps, t \in {{}, {"core"}}}

\* data.get('switch_type', 'access')
SwitchType(data) == IF data.switch_type = {} THEN "access"
                    ELSE CHOOSE t \in data.switch_type : TRUE

\* a mutant of the WHERE clause: every VLAN of the store matches
VlanRowsToUpdateAnyVlan(store_number, vlan_number) ==
    {r \in vlan_configs : r.site_id \in SiteIdsByStore(store_number)}
\* the rows that a statement on (store_number, vlan_number) matches
VlanRowsToUpdate(store_number, vlan_number) ==
    {r \in vlan_configs : r.site_id \in SiteIdsByStore(store_number)
                            /\ r.vlan_number = vlan_number}

\* a mutant of the WHERE clause: the switch IP of any site matches
SwitchRowsMatchingAnySite(store_number, ip_address) ==
    {r \in switch_ips : r.switch_ip = ip_address}
\* the rows that a statement on (store_number, switch_ip) matches
SwitchRowsMatching(store_number, ip_address) ==
    {r \in switch_ips : r.site_id \in SiteIdsByStore(store_number)
                          /\ r.switch_ip = ip_address}

\* a mutant of the rowcount test: always "updated successfully"
RowcountAlwaysOk(matched) == 200
\* if cursor.rowcount > 0: ... else: 404
RowcountStatus(matched) == IF matched = {} THEN 404 ELSE 200

\* the keys of request.json that add_vlan reads
VlanFields ==
    {"store_number", "vlan_number", "svi_name", "ip_address", "netmask", "gateway"}

\* a body of POST /vlans without the address fields
VlanBodiesPartial == {[store_number |-> n, vlan_number |-> 10] : n \in UrlStores}

\* POST /vlans arrives: SELECT site_id FROM sites WHERE store_number = ?
add_vlan(data) ==
    /\ LET result == SiteIdsByStore(data.store_number)
       IN \E ok \in BOOLEAN :
            IF ~ok
            THEN Fails("add_vlan", data, {}, {}) /\ UNCHANGED h_pending
            ELSE IF result = {}
            THEN Respond("add_vlan", data, 404, {}, {}) /\ UNCHANGED h_pending
            ELSE \E site_id \in result : Suspend("add_vlan", data, site_id)
    /\ UNCHANGED <<db, pvars, dvars, rvars, avars, gvars>>

\* POST /vlans: INSERT OR REPLACE INTO vlan_configs and the commit; a
\* missing key of the body raises KeyError when the INSERT is built
add_vlan_insert ==
    /\ \E req \in Pending("add_vlan"), ok \in BOOLEAN :
         LET data == req.args
             matched == {r \in vlan_configs : r.site_id = req.site_id
                                               /\ r.vlan_number = data.vlan_number}
         IN /\ h_pending' = h_pending \ {req}
            /\ IF ok /\ VlanFields \subseteq DOMAIN data
               THEN /\ vlan_configs' = UpsertVlan(vlan_configs,
                           VLANConfig(req.site_id, data.vlan_number, data.svi_name,
                                      data.ip_address, data.netmask, data.gateway))
                    /\ Answer("add_vlan", data, 201, {}, matched)
                    /\ UNCHANGED <<firewall_ips, sites, network_management, switch_ips,
                                   required_services>>
               ELSE /\ Answer("add_vlan", data, 500, {}, matched)
                    /\ UNCHANGED db
    /\ UNCHANGED <<pvars, dvars, rvars, avars, gvars>>

\* NetworkDatabase.add_vlan_config called on its own, whether or not a site
\* has the site_id: the body of the answer is the returned bool and the
\* status 0, or the status is -1 when get_connection raised before the try
call_add_vlan_config(vlan_config) ==
    /\ LET matched == {r \in vlan_configs : r.site_id = vlan_config.site_id
                                             /\ r.vlan_number = vlan_config.vlan_number}
       IN \E outcome \in Outcomes :
            IF outcome = "True"
            THEN /\ vlan_configs' = UpsertVlan(vlan_configs, vlan_config)
                 /\ Respond("add_vlan_config", vlan_config, 0, {TRUE}, matched)
                 /\ UNCHANGED <<firewall_ips, sites, network_management, switch_ips,
                                required_services>>
            ELSE IF outcome = "False"
            THEN /\ Respond("add_vlan_config", vlan_config, 0, {FALSE}, matched)
                 /\ UNCHANGED db
            ELSE /\ Respond("add_vlan_config", vlan_config, -1, {}, matched)
                 /\ UNCHANGED db
    /\ ApiFrame

\* PUT /vlans/{store_number}/{vlan_number}
update_vlan(store_number, vlan_number, data) ==
    /\ LET args == [store_number |-> store_number, vlan_number |-> vlan_number,
                    data |-> data]
           matched == VlanRowsToUpdate(store_number, vlan_number)
       IN \E ok \in BOOLEAN :
            IF ~ok
            THEN /\ Fails("update_vlan", args, {}, matched)
                 /\ UNCHANGED db
            ELSE /\ vlan_configs' =
                       (vlan_configs \ matched) \cup
                       {[r EXCEPT !.svi_name = data.svi_name,
                                  !.ip_address = data.ip_address,
                                  !.netmask = data.netmask,
                                  !.gateway = data.gateway] : r \in matched}
                 /\ Respond("update_vlan", args, RowcountStatus(matched), {}, matched)
                 /\ UNCHANGED <<firewall_ips, sites, network_management, switch_ips,
                                required_services>>
    /\ ApiFrame

\* INSERT INTO switch_ips (site_id, switch_ip, switch_type): the table after
\* the statement, or none when (site_id, switch_ip) is taken and the
\* statement raises sqlite3.IntegrityError
InsertSwitchIp(tbl, row) ==
    IF \E r \in tbl : r.site_id = row.site_id /\ r.switch_ip = row.switch_ip
    THEN {} ELSE {tbl \cup {row}}

\* POST /stores/{store_number}/switch-ips arrives: SELECT site_id FROM sites
post_switch_ip(store_number, data) ==
    /\ LET args == [store_number |-> store_number, data |-> data]
           result == SiteIdsByStore(store_number)
       IN \E ok \in BOOLEAN :
            IF ~ok
            THEN /\ Fails("post_switch_ip", args, {"Database operation failed"}, {})
                 /\ UNCHANGED h_pending
            ELSE IF result = {}
            THEN Respond("post_switch_ip", args, 404, {}, {}) /\ UNCHANGED h_pending
            ELSE \E site_id \in result : Suspend("post_switch_ip", args, site_id)
    /\ UNCHANGED <<db, pvars, dvars, rvars, avars, gvars>>

\* POST /stores/{store_number}/switch-ips: the INSERT and the commit
post_switch_ip_insert ==
    /\ \E req \in Pending("post_switch_ip"), ok \in BOOLEAN :
         LET data == req.args.data
             matched == {r \in switch_ips : r.site_id = req.site_id
                                             /\ r.switch_ip = data.ip_address}
             inserted == InsertSwitchIp(switch_ips,
                                [site_id |-> req.site_id, switch_ip |-> data.ip_address,
                                 switch_type |-> SwitchType(data)])
         IN /\ h_pending' = h_pending \ {req}
            /\ IF ~ok
               THEN /\ Answer("post_switch_ip", req.args, 500,
                              {"Database operation failed"}, matched)
                    /\ UNCHANGED db
               ELSE IF inserted = {}
               THEN /\ Answer("post_switch_ip", req.args, 500,
                              {"Data integrity error"}, matched)
                    /\ UNCHANGED db
               ELSE /\ switch_ips' \in inserted
                    /\ Answer("post_switch_ip", req.args, 201, {}, matched)
                    /\ UNCHANGED <<firewall_ips, sites, network_management, vlan_configs,
                                   required_services>>
    /\ UNCHANGED <<pvars, dvars, rvars, avars, gvars>>

\* NetworkDatabase.add_switch_ip called on its own, whether or not a site
\* has the site_id: the body of the answer is the returned bool and the
\* status 0, or the status is -1 when get_connection raised before the try
call_add_switch_ip(site_id, switch_ip) ==
    /\ LET args == [site_id |-> site_id, switch_ip |-> switch_ip]
           matched == {r \in switch_ips : r.site_id = site_id /\ r.switch_ip = switch_ip}
       IN \E outcome \in Outcomes :
            IF outcome = "True"
            THEN /\ switch_ips' = UpsertSwitchIp(switch_ips, site_id, switch_ip)
                 /\ Respond("add_switch_ip", args, 0, {TRUE}, matched)
                 /\ UNCHANGED <<firewall_ips, sites, network_management, vlan_configs,
                                required_services>>
            ELSE IF outcome = "False"
            THEN /\ Respond("add_switch_ip", args, 0, {FALSE}, matched)
                 /\ UNCHANGED db
            ELSE /\ Respond("add_switch_ip", args, -1, {}, matched)
                 /\ UNCHANGED db
    /\ ApiFrame

\* PUT /stores/{store_number}/switch-ips/{ip_address}
update_switch_ip(store_number, ip_address, data) ==
    /\ LET args == [store_number |-> store_number, ip_address |-> ip_address,
                    data |-> data]
           matched == SwitchRowsMatching(store_number, ip_address)
           updated == {[r EXCEPT !.switch_ip = data.ip_address,
                                 !.switch_type = SwitchType(data)] : r \in matched}
           \* the new key is held by a row that the UPDATE does not touch
           conflict == \E r \in switch_ips \ matched : \E u \in updated :
                          r.site_id = u.site_id /\ r.switch_ip = u.switch_ip
       IN \E ok \in BOOLEAN :
            IF ~ok
            THEN /\ Fails("update_switch_ip", args,
                          {"Database operation failed"}, matched)
                 /\ UNCHANGED db
            ELSE IF conflict
            THEN /\ Respond("update_switch_ip", args, 500,
                            {"Data integrity error"}, matched)
                 /\ UNCHANGED db
            ELSE /\ switch_ips' = (switch_ips \ matched) \cup updated
                 /\ Respond("update_switch_ip", args, RowcountStatus(matched), {}, matched)
                 /\ UNCHANGED <<firewall_ips, sites, network_management, vlan_configs,
                                required_services>>
    /\ ApiFrame

\* DELETE /stores/{store_number}/switch-ips/{ip_address}
delete_switch_ip(store_number, ip_address) ==
    /\ LET args == [store_number |-> store_number, ip_address |-> ip_address]
           matched == SwitchRowsMatching(store_number, ip_address)
       IN \E ok \in BOOLEAN :
            IF ~ok
            THEN /\ Fails("delete_switch_ip", args, {}, matched)
                 /\ UNCHANGED db
            ELSE /\ switch_ips' = switch_ips \ matched
                 /\ Respond("delete_switch_ip", args, RowcountStatus(matched), {}, matched)
                 /\ UNCHANGED <<firewall_ips, sites, network_management, vlan_configs,
                                required_services>>
    /\ ApiFrame

\* the lists that hold each row of S once
Arrangements(S) ==
    {seq \in [1..Cardinality(S) -> S] :
        \A i, k \in 1..Cardinality(S) : i # k => seq[i] # seq[k]}

\* the characters of a stored address in their ASCII order
CharRank(c) ==
    CASE c = "." -> 46 [] c = "0" -> 48 [] c = "1" -> 49 [] c = "2" -> 50
      [] c = "3" -> 51 [] c = "4" -> 52 [] c = "5" -> 53 [] c = "6" -> 54
      [] c = "7" -> 55 [] c = "8" -> 56 [] c = "9" -> 57

\* the BINARY collation of TEXT values
RECURSIVE TextLessEq(_, _)
TextLessEq(a, b) ==
    IF a = <<>> THEN TRUE
    ELSE IF b = <<>> THEN FALSE
    ELSE IF Head(a) = Head(b) THEN TextLessEq(Tail(a), Tail(b))
    ELSE CharRank(Head(a)) < CharRank(Head(b))

\* ORDER BY store_number: NULL sorts first
StoreNumberLessEq(a, b) ==
    \/ a = {}
    \/ a # {} /\ b # {} /\ (CHOOSE x \in a : TRUE) <= (CHOOSE y \in b : TRUE)

\* ORDER BY switch_ip: the lists of the rows S that the statement may return
OrderBySwitchIp(S) ==
    {seq \in Arrangements(S) :
        \A i, k \in DOMAIN seq : i < k => TextLessEq(seq[i].ip_address, seq[k].ip_address)}

\* ORDER BY store_number: the lists of the sites S that the statement may return
OrderByStoreNumber(S) ==
    {seq \in Arrangements(S) :
        \A i, k \in DOMAIN seq :
            i < k => StoreNumberLessEq(seq[i].store_number, seq[k].store_number)}

\* the site of the answer of GET /stores/{n}
StoreSummary(site) ==
    [store_number |-> site.store_number, site_name |-> site.site_name,
     address |-> site.address, latitude |-> site.latitude,
     longitude |-> site.longitude, wireless_platform |-> site.wireless_platform,
     business_unit |-> site.business_unit, timezone |-> "America/Chicago"]

\* the frame of a handler that answers when get_complete_site_info has
\* returned or raised
AfterRead ==
    /\ r_pc \in {"done", "raised"}
    /\ r_pc' = "idle"
    /\ UNCHANGED <<r_store, r_site, r_vlans, r_nm_row, r_switch_ips, r_firewall_ips,
                   r_result, r_calls, r_inflight>>
    /\ UNCHANGED <<db, pvars, dvars, avars, gvars, h_pending>>

\* GET /stores/{store_number}: store_info = db.get_complete_site_info(...)
\* has run, the handler answers
get_store_details(store_number) ==
    /\ r_store = store_number
    /\ AfterRead
    /\ LET args == [store_number |-> store_number]
       IN IF r_pc = "raised" THEN Answer("get_store_details", args, 500, {}, {})
          ELSE IF r_result # {}
          THEN \E info \in r_result :
                 Answer("get_store_details", args, 200, {StoreSummary(info.site)}, {})
          ELSE Answer("get_store_details", args, 404, {}, {})

\* the answer of GET /stores/{n}/details
StoreDetails(info) ==
    [store_number |-> info.site.store_number, site_name |-> info.site.site_name,
     address |-> info.site.address, latitude |-> info.site.latitude,
     longitude |-> info.site.longitude, timezone |-> "America/Chicago",
     wireless_platform |-> info.site.wireless_platform,
     business_unit |-> info.site.business_unit,
     vlans |-> {[vlan_number |-> v.vlan_number, svi_name |-> v.svi_name,
                 ip_address |-> v.ip_address, netmask |-> v.netmask,
                 gateway |-> v.gateway] : v \in info.vlans},
     switch_ips |-> UNION {{[ip_address |-> ip, ip_type |-> "switch"] :
                               ip \in nm.switch_ips} : nm \in info.network_management}]

\* GET /stores/{store_number}/details
get_store_complete_details(store_number) ==
    /\ r_store = store_number
    /\ AfterRead
    /\ LET args == [store_number |-> store_number]
       IN IF r_pc = "raised"
          THEN Answer("get_store_complete_details", args, 500, {}, {})
          ELSE IF r_result # {}
          THEN \E info \in r_result :
                 Answer("get_store_complete_details", args, 200, {StoreDetails(info)}, {})
          ELSE Answer("get_store_complete_details", args, 404, {}, {})

\* GET /stores/{store_number}/switch-ips arrives: SELECT site_id FROM sites
get_store_switch_ips(store_number) ==
    /\ LET args == [store_number |-> store_number]
           result == SiteIdsByStore(store_number)
       IN \E ok \in BOOLEAN :
            IF ~ok
            THEN Fails("get_store_switch_ips", args, {}, {}) /\ UNCHANGED h_pending
            ELSE IF result = {}
            THEN Respond("get_store_switch_ips", args, 404, {}, {}) /\ UNCHANGED h_pending
            ELSE \E site_id \in result : Suspend("get_store_switch_ips", args, site_id)
    /\ UNCHANGED <<db, pvars, dvars, rvars, avars, gvars>>

\* GET /stores/{store_number}/switch-ips: SELECT switch_ip, switch_type ...
\* ORDER BY switch_ip; the body is the list of the rows
get_store_switch_ips_rows ==
    /\ \E req \in Pending("get_store_switch_ips"), ok \in BOOLEAN :
         /\ h_pending' = h_pending \ {req}
         /\ IF ok
            THEN \E rows \in OrderBySwitchIp(
                                {[ip_address |-> r.switch_ip,
                                  ip_type |-> OrDefault(r.switch_type, "access")] :
                                     r \in {x \in switch_ips : x.site_id = req.site_id}}) :
                    Answer("get_store_switch_ips", req.args, 200, {rows}, {})
            ELSE Answer("get_store_switch_ips", req.args, 500, {}, {})
    /\ UNCHANGED <<db, pvars, dvars, rvars, avars, gvars>>

\* the keys of request.json that update_store reads
StoreFields == {"site_name", "address", "latitude", "longitude"}

\* the bodies of PUT /stores/{n}: complete, and without the address fields
StoreUpdates ==
    {[site_name |-> StoreName, address |-> OakAve, latitude |-> 30, longitude |-> -97],
     [site_name |-> StoreName]}

\* a mutant of the SET clause: the store number is cleared
UpdatedSiteRenumbered(s, data) ==
    [s EXCEPT !.site_name = data.site_name, !.address = data.address,
              !.latitude = data.latitude, !.longitude = data.longitude,
              !.store_number = {}]
\* SET site_name = ?, address = ?, latitude = ?, longitude = ?
UpdatedSite(s, data) ==
    [s EXCEPT !.site_name = data.site_name, !.address = data.address,
              !.latitude = data.latitude, !.longitude = data.longitude]

\* PUT /stores/{store_number}: the rowcount of the UPDATE is not read
update_store(store_number, data) ==
    /\ LET args == [store_number |-> store_number, data |-> data]
           matched == {s \in sites : store_number \in s.store_number}
       IN IF ~(StoreFields \subseteq DOMAIN data)
          THEN /\ Fails("update_store", args, {}, matched)
               /\ UNCHANGED db
          ELSE \E ok \in BOOLEAN :
                 IF ok
                 THEN /\ sites' = (sites \ matched) \cup
                            {UpdatedSite(s, data) : s \in matched}
                      /\ Respond("update_store", args, 200,
                                 {"Store updated successfully"}, matched)
                      /\ UNCHANGED <<firewall_ips, network_management, vlan_configs, switch_ips,
                                     required_services>>
                 ELSE /\ Fails("update_store", args, {}, matched)
                      /\ UNCHANGED db
    /\ ApiFrame

\* GET /stores/{store_number}/vlans: an unknown store, and a store without
\* VLANs, give the empty list
get_store_vlans(store_number) ==
    /\ r_store = store_number
    /\ AfterRead
    /\ LET args == [store_number |-> store_number]
       IN IF r_pc = "raised" THEN Answer("get_store_vlans", args, 500, {}, {})
          ELSE Answer("get_store_vlans", args, 200,
                      UNION {{[vlan_number |-> v.vlan_number, svi_name |-> v.svi_name,
                               ip_address |-> v.ip_address, netmask |-> v.netmask,
                               gateway |-> v.gateway] : v \in info.vlans} :
                                 info \in r_result},
                      {})

(***************************************************************************)
(* LIKE of SQLite: case-insensitive for the ASCII letters, % matches any   *)
(* run of characters and _ any one character.                              *)
(***************************************************************************)
Lower(c) ==
    CASE c = "A" -> "a" [] c = "B" -> "b" [] c = "C" -> "c" [] c = "D" -> "d"
      [] c = "E" -> "e" [] c = "F" -> "f" [] c = "G" -> "g" [] c = "H" -> "h"
      [] c = "I" -> "i" [] c = "J" -> "j" [] c = "K" -> "k" [] c = "L" -> "l"
      [] c = "M" -> "m" [] c = "N" -> "n" [] c = "O" -> "o" [] c = "P" -> "p"
      [] c = "Q" -> "q" [] c = "R" -> "r" [] c = "S" -> "s" [] c = "T" -> "t"
      [] c = "U" -> "u" [] c = "V" -> "v" [] c = "W" -> "w" [] c = "X" -> "x"
      [] c = "Y" -> "y" [] c = "Z" -> "z" [] OTHER -> c

RECURSIVE LikeMatch(_, _)
LikeMatch(pattern, text) ==
    IF pattern = <<>> THEN text = <<>>
    ELSE IF Head(pattern) = "%"
    THEN \/ LikeMatch(Tail(pattern), text)
         \/ text # <<>> /\ LikeMatch(pattern, Tail(text))
    ELSE /\ text # <<>>
         /\ Head(pattern) = "_" \/ Lower(Head(pattern)) = Lower(Head(text))
         /\ LikeMatch(Tail(pattern), Tail(text))

\* column LIKE ? with the parameter f"%{term}%"
Like(text, term) == LikeMatch(<<"%">> \o term \o <<"%">>, text)

\* the query parameters of GET /search: an absent or empty parameter is
\* the empty set
SearchArgs ==
    [store : {{}, {7}}, vlan : {{}, {10}},
     ip : {{}, {<<"7", "2">>}, {<<"7", "_">>}, {<<"%">>}, {<<"7", "%", "2">>}},
     city : {{}, {<<"m", "a", "i", "n">>}, {<<"M", "_", "i", "n">>}}]

\* a mutant of the WHERE clause of search: the city filter is left out
RowMatchesNoCity(s, v, args) ==
    /\ \A store_num \in args.store : store_num \in s.store_number
    /\ \A vlan_num \in args.vlan : \E r \in v : r.vlan_number = vlan_num
    /\ \A ip_addr \in args.ip : \E r \in v : Like(r.ip_address, ip_addr)
\* WHERE 1=1 and the AND clauses of search on one row of sites LEFT JOIN
\* vlan_configs: v is the VLAN row of the join, or nothing
RowMatches(s, v, args) ==
    /\ \A store_num \in args.store : store_num \in s.store_number
    /\ \A vlan_num \in args.vlan : \E r \in v : r.vlan_number = vlan_num
    /\ \A ip_addr \in args.ip : \E r \in v : Like(r.ip_address, ip_addr)
    /\ \A city \in args.city : Like(s.address, city)

\* FROM sites s LEFT JOIN vlan_configs v ON s.site_id = v.site_id: a site
\* without VLANs is joined to nothing
SearchJoinRows ==
    UNION {IF VlansOf(s.site_id) = {} THEN {<<s, {}>>}
           ELSE {<<s, {v}>> : v \in VlansOf(s.site_id)} : s \in sites}

\* GET /search: one SELECT DISTINCT
search(args) ==
    /\ \E ok \in BOOLEAN :
         IF ok
         THEN Respond("search", args, 200,
                      {[store_number |-> x[1].store_number, site_name |-> x[1].site_name,
                        address |-> x[1].address] :
                           x \in {y \in SearchJoinRows : RowMatches(y[1], y[2], args)}},
                      {})
         ELSE Fails("search", args, {}, {})
    /\ UNCHANGED db
    /\ ApiFrame

SearchTerms ==
    {<<"M", "a", "i", "n">>, <<"m", "a", "i", "n">>, <<"M", "_", "i", "n">>,
     <<"S", "t", "o", "r">>, <<"Z", "e", "d">>}

\* a mutant of the WHERE clause of search_stores: the name alone
StoreMatchesName(s, search_term) == Like(s.site_name, search_term)
\* WHERE site_name LIKE ? OR address LIKE ?
StoreMatches(s, search_term) ==
    Like(s.site_name, search_term) \/ Like(s.address, search_term)

\* NetworkDatabase.search_stores called on its own: the body of the answer
\* is the returned list and the status 0, or the status is -1 when the
\* SELECT raised and the error left the method
search_stores(search_term) ==
    /\ \E ok \in BOOLEAN :
         IF ok
         THEN \E rows \in OrderByStoreNumber({s \in sites : StoreMatches(s, search_term)}) :
                Respond("search_stores", [search_term |-> search_term], 0,
                        {[i \in DOMAIN rows |-> <<rows[i].store_number, rows[i].site_name>>]},
                        {})
         ELSE Respond("search_stores", [search_term |-> search_term], -1, {}, {})
    /\ UNCHANGED db
    /\ ApiFrame

(***************************************************************************)
(* The API on a database of seeded stores.                                 *)
(***************************************************************************)
\* the seeded stores of the initial database: store 8 alone, or 7 and 8
ApiSeeds == {{8}, {7, 8}}

InitApiDb ==
    /\ \E seeded \in ApiSeeds : InitDb(seeded)
    /\ InitRequests
    /\ InitAlloc
    /\ InitGenerate
    /\ InitApi

\* the requests that an unknown store or an unknown record answers with 404
NextApi ==
    \/ \E data \in {d \in VlanBodies : d.ip_address = IpA} : add_vlan(data)
    \/ add_vlan_insert
    \/ \E n \in UrlStores, data \in {d \in VlanBodies : d.ip_address = IpA} :
          update_vlan(n, data.vlan_number, data)
    \/ \E n \in UrlStores, data \in {d \in SwitchBodies : d.switch_type = {}} :
          post_switch_ip(n, data)
    \/ post_switch_ip_insert
    \/ \E n \in UrlStores, ip \in ApiSwitchIps :
          \E data \in {d \in SwitchBodies : d.switch_type = {}} :
             update_switch_ip(n, ip, data)
    \/ \E n \in UrlStores, ip \in ApiSwitchIps : delete_switch_ip(n, ip)
    \/ \E n \in UrlStores : read_site(n)
    \/ read_vlans
    \/ read_nm_row
    \/ read_switch_ips
    \/ read_firewall_ips
    \/ read_services
    \/ \E n \in UrlStores : get_store_details(n)
    \/ \E n \in UrlStores : get_store_complete_details(n)
    \/ \E n \in UrlStores : get_store_switch_ips(n)
    \/ get_store_switch_ips_rows
    \/ \E n \in UrlStores : delete_store(n)
    \/ delete_store_commit

SpecApi == InitApiDb /\ [][NextApi]_vars

(***************************************************************************)
(* The writers of vlan_configs next to the deletion of the store.          *)
(***************************************************************************)
NextVlan ==
    \/ \E data \in VlanBodies \cup VlanBodiesPartial : add_vlan(data)
    \/ add_vlan_insert
    \/ \E site_id \in {SeedId(n) : n \in UrlStores}, data \in VlanBodies :
          call_add_vlan_config(VLANConfig(site_id, data.vlan_number, data.svi_name,
                                          data.ip_address, data.netmask, data.gateway))
    \/ \E n \in UrlStores, data \in VlanBodies : update_vlan(n, data.vlan_number, data)
    \/ \E n \in UrlStores : delete_store(n)
    \/ delete_store_commit

SpecVlan == InitApiDb /\ [][NextVlan]_vars

(***************************************************************************)
(* The writers and the reader of switch_ips next to the deletion of the    *)
(* store.                                                                  *)
(***************************************************************************)
NextSwitch ==
    \/ \E n \in UrlStores, data \in SwitchBodies : post_switch_ip(n, data)
    \/ post_switch_ip_insert
    \/ \E n \in UrlStores, ip \in ApiSwitchIps :
          call_add_switch_ip(SeedId(n), ip)
    \/ \E n \in UrlStores, ip \in ApiSwitchIps, data \in SwitchBodies :
          update_switch_ip(n, ip, data)
    \/ \E n \in UrlStores, ip \in ApiSwitchIps : delete_switch_ip(n, ip)
    \/ \E n \in UrlStores : get_store_switch_ips(n)
    \/ get_store_switch_ips_rows
    \/ \E n \in UrlStores : delete_store(n)
    \/ delete_store_commit

SpecSwitch == InitApiDb /\ [][NextSwitch]_vars

(***************************************************************************)
(* The requests on one store: its update, its deletion and the reads that  *)
(* go through get_complete_site_info.                                      *)
(***************************************************************************)
NextStore ==
    \/ \E n \in UrlStores, data \in StoreUpdates : update_store(n, data)
    \/ \E n \in UrlStores : read_site(n)
    \/ read_vlans
    \/ read_nm_row
    \/ read_switch_ips
    \/ read_firewall_ips
    \/ read_services
    \/ \E n \in UrlStores : get_store_details(n)
    \/ \E n \in UrlStores : get_store_complete_details(n)
    \/ \E n \in UrlStores : get_store_vlans(n)
    \/ \E n \in UrlStores : delete_store(n)
    \/ delete_store_commit

SpecStore == InitApiDb /\ [][NextStore]_vars

(***************************************************************************)
(* The searches next to the requests that change what they read.           *)
(***************************************************************************)
NextSearch ==
    \/ \E args \in SearchArgs : search(args)
    \/ \E search_term \in SearchTerms : search_stores(search_term)
    \/ \E n \in UrlStores, data \in StoreUpdates : update_store(n, data)
    \/ \E n \in UrlStores, data \in VlanBodies : update_vlan(n, data.vlan_number, data)

SpecSearch == InitApiDb /\ [][NextSearch]_vars

(***************************************************************************)
(* GET /dashboard next to the provisioning of new stores.                  *)
(***************************************************************************)
\* the sites of S that ORDER BY store_number DESC may put first: NULL is
\* below every number
LargestStoreNumber(S) ==
    {s \in S : \A t \in S : StoreNumberLessEq(t.store_number, s.store_number)}

\* ORDER BY store_number DESC LIMIT k: the lists that the statement may return
RECURSIVE OrderByStoreNumberDesc(_, _)
OrderByStoreNumberDesc(S, k) ==
    IF S = {} \/ k = 0 THEN {<<>>}
    ELSE UNION {{<<s>> \o rest : rest \in OrderByStoreNumberDesc(S \ {s}, k - 1)} :
                   s \in LargestStoreNumber(S)}

\* min_store or 0, max_store or 0
StoreNumbers == UNION {s.store_number : s \in sites}
MinStore == IF StoreNumbers = {} THEN 0
            ELSE CHOOSE n \in StoreNumbers : \A o \in StoreNumbers : n <= o
MaxStoreNumber == IF StoreNumbers = {} THEN 0
                  ELSE CHOOSE n \in StoreNumbers : \A o \in StoreNumbers : n >= o

\* the SELECTs of GET /dashboard after the first, in their order: COUNT(*)
\* FROM vlan_configs, COUNT(*) FROM switch_ips, MIN and MAX of store_number
DashboardSelect(k) ==
    CASE k = 2 -> Cardinality(vlan_configs)
      [] k = 3 -> Cardinality(switch_ips)
      [] k = 4 -> <<MinStore, MaxStoreNumber>>

\* the GET /dashboard requests that run at one time
MaxDashboards == 1

DashFrame == UNCHANGED <<db, pvars, dvars, rvars, avars, gvars>>

\* GET /dashboard arrives: SELECT COUNT(*) FROM sites
dashboard ==
    /\ \E ok \in BOOLEAN :
         IF ok
         THEN /\ Started < MaxRequests
              /\ Cardinality(Pending("dashboard")) < MaxDashboards
              /\ h_pending' = h_pending \cup
                     {[id |-> Started + 1, op |-> "dashboard", args |-> NoRequest,
                       locals |-> <<Cardinality(sites)>>]}
              /\ UNCHANGED <<h_op, h_args, h_status, h_body, h_calls, h_prev, h_conns>>
         ELSE Fails("dashboard", NoRequest, {}, {}) /\ UNCHANGED h_pending
    /\ DashFrame

\* GET /dashboard: its second, third or fourth SELECT
dashboard_select ==
    /\ \E req \in Pending("dashboard"), ok \in BOOLEAN :
         /\ Len(req.locals) < 4
         /\ IF ok
            THEN /\ h_pending' = (h_pending \ {req}) \cup
                        {[req EXCEPT !.locals =
                                        Append(@, DashboardSelect(Len(@) + 1))]}
                 /\ UNCHANGED <<h_op, h_args, h_status, h_body, h_calls, h_prev,
                                h_conns>>
            ELSE /\ h_pending' = h_pending \ {req}
                 /\ Answer("dashboard", req.args, 500, {}, {})
    /\ DashFrame

\* GET /dashboard: SELECT ... ORDER BY store_number DESC LIMIT 5 and the
\* answer; h_prev keeps the sites that the statement read
dashboard_recent ==
    /\ \E req \in Pending("dashboard"), ok \in BOOLEAN :
         /\ Len(req.locals) = 4
         /\ h_pending' = h_pending \ {req}
         /\ IF ok
            THEN \E rows \in OrderByStoreNumberDesc(sites, 5) :
                   Answer("dashboard", req.args, 200,
                          {[totalStores |-> req.locals[1],
                            totalVLANs |-> req.locals[2],
                            totalSwitches |-> req.locals[3],
                            minStore |-> req.locals[4][1],
                            maxStore |-> req.locals[4][2],
                            recentStores |->
                                [i \in DOMAIN rows |->
                                    [store_number |-> rows[i].store_number,
                                     site_name |-> rows[i].site_name,
                                     address |-> rows[i].address]]]},
                          sites)
            ELSE Answer("dashboard", req.args, 500, {}, {})
    /\ DashFrame

\* the stores that the database holds before the requests: none, or five
DashSeeds == {{}, {11, 12, 13, 14, 15}}

InitDash ==
    /\ \E seeded \in DashSeeds : InitDb(seeded)
    /\ InitRequests
    /\ InitAlloc
    /\ InitGenerate
    /\ InitApi

NextDash ==
    \/ \E data \in StoreBodies : add_store(data)
    \/ add_site
    \/ add_vlan_config
    \/ add_switch_ip1
    \/ add_switch_ip2
    \/ add_services
    \/ dashboard
    \/ dashboard_select
    \/ dashboard_recent

SpecDash == InitDash /\ [][NextDash]_vars

(***************************************************************************)
(* Vocabulary of the properties.                                           *)
(***************************************************************************)
SupportedStores == 1..999

SiteRowsOf(site_id) == {s \in sites : s.site_id = site_id}
SwitchRowsOf(site_id) == {r \in switch_ips : r.site_id = site_id}
ServiceRowsOf(site_id) == {r \in required_services : r.site_id = site_id}

\* no table holds a row of site_id
NoRecordsOf(site_id) ==
    /\ SiteRowsOf(site_id) = {}
    /\ NmRowsOf(site_id) = {}
    /\ VlansOf(site_id) = {}
    /\ SwitchRowsOf(site_id) = {}
    /\ ServiceRowsOf(site_id) = {}

\* the children of a complete store: one VLAN per number of the allocation
\* set, two switch addresses, the three services
FullChildren(site_id) ==
    /\ Cardinality(VlansOf(site_id)) = Len(VlanList)
    /\ {v.vlan_number : v \in VlansOf(site_id)} = VlanSet
    /\ Cardinality(SwitchRowsOf(site_id)) = 2
    /\ Cardinality(ServiceRowsOf(site_id)) = Len(ServiceList)
    /\ ServicesOf(site_id) = {ServiceList[i] : i \in DOMAIN ServiceList}

WholeStore(site_id) == Cardinality(SiteRowsOf(site_id)) = 1 /\ FullChildren(site_id)

\* every site_id that some row carries
SiteIdsInUse ==
    {r.site_id : r \in sites} \cup {r.site_id : r \in network_management}
      \cup {r.site_id : r \in vlan_configs} \cup {r.site_id : r \in switch_ips}
      \cup {r.site_id : r \in required_services}

\* a value returned by get_complete_site_info that is a site with all of
\* its nine VLANs, two switch addresses and three services
CompleteInfo(info) ==
    /\ Cardinality(info.vlans) = Len(VlanList)
    /\ {v.vlan_number : v \in info.vlans} = VlanSet
    /\ info.network_management # {}
    /\ \A nm \in info.network_management :
         /\ Cardinality(nm.switch_ips) = 2
         /\ nm.required_services = {ServiceList[i] : i \in DOMAIN ServiceList}

Returned == p_pc = "done"

\* what get_complete_site_info(store_number) returns when it runs on the
\* present tables, no request commits while it runs and no statement raises:
\* nothing (None), or a dictionary
CompleteSiteInfoNow(store_number) ==
    UNION {IF site.value = {} THEN {{}}
           ELSE UNION
                 {IF NmRowsOf(row.site_id) = {}
                  THEN {{SiteInfoDict(row, VlansOf(row.site_id), {})}}
                  ELSE {{SiteInfoDict(row, VlansOf(row.site_id),
                             {NetworkManagement(row.site_id, nm_row,
                                  SwitchIpsOf(row.site_id), FirewallIpsOf(row.site_id),
                                  ServicesOf(row.site_id))})} :
                           nm_row \in NmRowsOf(row.site_id)} : row \in site.value} :
              site \in {o \in get_site_by_store_number(store_number) : o.raised = {}}}

(***************************************************************************)
(* Properties.                                                             *)
(***************************************************************************)
\* C1: when a step of provisioning has failed, add_store_with_vlans does
\* not return True and POST /stores answers 500; it never answers success.
C1_FailedStepReturnsFailure ==
    (Returned /\ p_failed) => (p_result # {TRUE} /\ p_status = 500)

\* C2: when add_store_with_vlans returns failure, no Site,
\* NetworkManagement, VLANConfig, SwitchIP or service row of the call's
\* site_id remains.
C2_FailureLeavesNothing ==
    (Returned /\ p_result = {FALSE}) => NoRecordsOf(p_site_id)

\* C3: a successful provisioning of a store number that was not present
\* leaves exactly one Site, nine VLANConfigs (one per number of the
\* allocation set), two SwitchIPs and three service bindings for its site.
C3_SuccessAddsFullStore ==
    (Returned /\ p_result = {TRUE} /\ ~p_existed) => WholeStore(p_site_id)

\* C4: after add_store_with_vlans(n, ...) has returned True,
\* get_complete_site_info(n) does not return None: it returns the
\* provisioned Site with its nine VLANs, two switch addresses and three
\* services.
C4_SuccessIsReadable ==
    (Returned /\ p_result = {TRUE}) =>
        \A ret \in CompleteSiteInfoNow(p_data.store_number) :
            /\ ret # {}
            /\ \A info \in ret : info.site.site_id = p_site_id /\ CompleteInfo(info)

\* C5: after any sequence of provisionings and deletions, the site_id of
\* every VLANConfig, SwitchIP, NetworkManagement and service row is the
\* site_id of an existing Site.
C5_NoOrphans ==
    SiteIdsInUse \subseteq {s.site_id : s \in sites}

\* C6: a provisioning whose store_number is not in 1..999 writes no record
\* at any time and does not succeed.
C6_OutOfRangeRejected ==
    (p_pc # "idle" /\ p_data.store_number \notin SupportedStores) =>
        (NoRecordsOf(p_site_id) /\ p_result # {TRUE})

\* C7: no two Sites have the same store_number, and a provisioning of a
\* store_number that is already present fails and adds no record.
C7_StoreNumberUnique ==
    /\ \A s1 \in sites : \A s2 \in sites :
         (s1.store_number # {} /\ s1.store_number = s2.store_number) => s1 = s2
    /\ (p_pc # "idle" /\ p_existed) =>
         (NoRecordsOf(p_site_id) /\ p_result # {TRUE})

\* C8: when a POST /stores and a DELETE /stores/{n} of the same store
\* number have run concurrently and both have finished, every site is
\* either whole (Site, nine VLANs, two switch addresses, three services)
\* or has no record at all.
C8_NoHalfState ==
    (Returned /\ p_overlap) =>
        \A site_id \in SiteIdsInUse : WholeStore(site_id)

\* C9: a get_complete_site_info that ran while a provisioning was in
\* flight returns None or a Site with its complete set of nine VLANs, two
\* switch addresses and three services.
C9_ReadSeesNoInflightState ==
    (r_pc = "done" /\ r_inflight) => \A info \in r_result : CompleteInfo(info)

\* a read of the store number under provisioning that began after the Site
\* row was committed and ended before the provisioning returned
C9_Witness ==
    /\ r_pc = "done" /\ r_inflight /\ InFlight
    /\ r_store = p_data.store_number
    /\ p_pc = "add_services"
    /\ SiteRowsOf(p_site_id) # {}

\* the addresses of every store below store_number
AddressesBelow(store_number) ==
    {generate_ip_for_store(t, w) : t \in 1..(store_number - 1), w \in VlanSet}

\* C10: generate_ip_for_store is injective on stores 1..999 and VLANs
\* 10..90: the nine addresses of a store differ from each other and from
\* every address of every lower store number.
C10_AllocInjective ==
    a_ips # <<>> =>
        /\ \A v \in VlanSet : \A w \in VlanSet : a_ips[v] = a_ips[w] => v = w
        /\ {a_ips[v] : v \in VlanSet} \cap AddressesBelow(a_store) = {}

\* the boundary pair (999, 90) has been generated, with (1, 10) below it
C10_Witness ==
    /\ a_ips # <<>>
    /\ a_store = 999
    /\ a_ips[90] = generate_ip_for_store(999, 90)
    /\ generate_ip_for_store(1, 10) \in AddressesBelow(a_store)

(***************************************************************************)
(* Reading an address back: its dot-separated parts and their values.      *)
(***************************************************************************)
Digits == {"0", "1", "2", "3", "4", "5", "6", "7", "8", "9"}

DigitValue(c) == CHOOSE d \in 0..9 : DigitChar(d) = c

IsDecimal(part) == Len(part) > 0 /\ \A i \in DOMAIN part : part[i] \in Digits

RECURSIVE DecimalValue(_)
DecimalValue(part) ==
    IF Len(part) = 0 THEN 0
    ELSE 10 * DecimalValue(SubSeq(part, 1, Len(part) - 1)) + DigitValue(part[Len(part)])

\* C11: for every store 1..999 and VLAN 10..90 the generated address is
\* four dot-separated decimal octets, none above 255.
C11_DottedQuad ==
    (a_ips # <<>> /\ a_store \in SupportedStores) =>
        \A v \in VlanSet :
            LET parts == Split(a_ips[v])
            IN /\ Len(parts) = 4
               /\ \A i \in DOMAIN parts :
                    IsDecimal(parts[i]) /\ DecimalValue(parts[i]) <= 255

\* the addresses of store 999 are generated; its VLAN-90 address has the
\* largest octets of the range
C11_Witness ==
    /\ a_ips # <<>>
    /\ a_store = 999
    /\ Split(a_ips[90]) = << <<"1", "0">>, <<"9", "9">>, <<"9", "9">>, <<"1">> >>

\* the derivation of section 4.1 of the specification, on the decimal
\* digits of the store number as written
derive_ip(store_number, vlan_number) ==
    LET d == NatStr(store_number)
        vlan_digit == NatStr(vlan_number \div 10)
    IN CASE Len(d) = 1 ->
              <<"1", "0", ".", "0", ".", d[1]>> \o vlan_digit \o <<".", "1">>
         [] Len(d) = 2 ->
              <<"1", "0", ".", d[1], ".", d[2]>> \o vlan_digit \o <<".", "1">>
         [] Len(d) = 3 ->
              <<"1", "0", ".", d[1], d[2], ".", d[3]>> \o vlan_digit \o <<".", "1">>

\* C12: for every store 1..999 and VLAN 10..90 the generated address is the
\* reference derivation: 10.0.{d}{vlan_digit}.1, 10.{d1}.{d2}{vlan_digit}.1
\* or 10.{d1}{d2}.{d3}{vlan_digit}.1, the digits concatenated.
C12_MatchesDerivation ==
    (a_ips # <<>> /\ a_store \in SupportedStores) =>
        \A v \in VlanSet : a_ips[v] = derive_ip(a_store, v)

\* the addresses of a three-digit store with a zero digit are generated
C12_Witness ==
    /\ a_ips # <<>>
    /\ a_store = 100
    /\ a_ips[10] = <<"1", "0", ".", "1", "0", ".", "0", "1", ".", "1">>

\* C13: a call of the allocator with a store number of 1000 or more, or
\* with a VLAN number outside {10,...,90}, raises InvalidAllocationInput
\* and returns no address.
C13_InvalidInputRejected ==
    (g_store >= 1000 \/ g_vlan \notin VlanSet) =>
        \A r \in g_result : r.raised = {"InvalidAllocationInput"} /\ r.value = {}

\* C14: upserting a VLAN on a key (site_id, vlan_number) that is already
\* stored, through POST /vlans or add_vlan_config, leaves exactly one
\* VLANConfig for the key and it holds the submitted values; in every state
\* no two VLANConfig rows share (site_id, vlan_number).
VlanRowsOfKey(site_id, vlan_number) ==
    {r \in vlan_configs : r.site_id = site_id /\ r.vlan_number = vlan_number}

C14_VlanUpsertReplaces ==
    /\ \A a, b \in vlan_configs :
          (a.site_id = b.site_id /\ a.vlan_number = b.vlan_number) => a = b
    /\ (h_op = "add_vlan" /\ h_status = 201) =>
          \A site_id \in SiteIdsByStore(h_args.store_number) :
              VlanRowsOfKey(site_id, h_args.vlan_number) =
                  {[site_id |-> site_id, vlan_number |-> h_args.vlan_number,
                    svi_name |-> h_args.svi_name, ip_address |-> h_args.ip_address,
                    netmask |-> h_args.netmask, gateway |-> h_args.gateway]}
    /\ (h_op = "add_vlan_config" /\ h_body = {TRUE}) =>
          VlanRowsOfKey(h_args.site_id, h_args.vlan_number) = {h_args}

\* the second of two upserts through the API on one key, with another address
C14_Witness ==
    /\ h_op \in {"add_vlan", "add_vlan_config"}
    /\ h_status = 201 \/ h_body = {TRUE}
    /\ \E r \in h_prev : r.ip_address \in {IpA, IpB}
                           /\ r.ip_address # h_args.ip_address

\* C15: re-submitting a stored (site_id, switch_ip) with a new switch_type,
\* through POST /stores/{n}/switch-ips or add_switch_ip, succeeds unless the
\* storage is unavailable, and leaves one record for the key with the new
\* values.
C15_SwitchUpsertIdempotent ==
    /\ (h_op = "post_switch_ip" /\ h_prev # {}
          /\ h_body # {"Database operation failed"}) =>
          /\ h_status = 201
          /\ \A r \in h_prev :
                {x \in switch_ips : x.site_id = r.site_id /\ x.switch_ip = r.switch_ip}
                  = {[r EXCEPT !.switch_type = SwitchType(h_args.data)]}
    /\ (h_op = "add_switch_ip" /\ h_prev # {} /\ h_body = {TRUE}) =>
          Cardinality({x \in switch_ips : x.site_id = h_args.site_id
                                            /\ x.switch_ip = h_args.switch_ip}) = 1

\* C16: every Site has exactly one NetworkManagement record and every
\* NetworkManagement record belongs to a Site that exists.
C16_SiteNmOneToOne ==
    /\ \A s \in sites : Cardinality(NmRowsOf(s.site_id)) = 1
    /\ \A nm \in network_management : \E s \in sites : s.site_id = nm.site_id

\* C17: a search that supplies no filter is rejected and returns no site.
NoFilters(args) == args.store = {} /\ args.vlan = {} /\ args.ip = {} /\ args.city = {}

C17_EmptySearchRejected ==
    (h_op = "search" /\ NoFilters(h_args)) => (h_status >= 400 /\ h_body = {})

\* the records of a store number with a key, read from the tables
VlanRowsOfKeyByStore(store_number, vlan_number) ==
    {r \in vlan_configs :
        /\ \E s \in sites : s.site_id = r.site_id /\ store_number \in s.store_number
        /\ r.vlan_number = vlan_number}
SwitchRowsOfKeyByStore(store_number, ip_address) ==
    {r \in switch_ips :
        /\ \E s \in sites : s.site_id = r.site_id /\ store_number \in s.store_number
        /\ r.switch_ip = ip_address}

\* text contains term as a substring
Contains(text, term) ==
    \E i \in 0..(Len(text) - Len(term)) : SubSeq(text, i + 1, i + Len(term)) = term

\* text contains term when the ASCII letters are compared without case and
\* "_" in term stands for any one character (term holds no "%")
ContainsFold(text, term) ==
    \E i \in 0..(Len(text) - Len(term)) :
        \A k \in 1..Len(term) :
            term[k] = "_" \/ Lower(term[k]) = Lower(text[i + k])

SearchOut(S) ==
    {[store_number |-> s.store_number, site_name |-> s.site_name,
      address |-> s.address] : s \in S}

\* the Sites that satisfy every supplied filter, each filter on its own
SitesWithEveryFilter(args) ==
    {s \in sites :
        /\ \A store_num \in args.store : store_num \in s.store_number
        /\ \A vlan_num \in args.vlan :
              \E v \in VlansOf(s.site_id) : v.vlan_number = vlan_num
        /\ \A ip_addr \in args.ip :
              \E v \in VlansOf(s.site_id) : Contains(v.ip_address, ip_addr)
        /\ \A city \in args.city : Contains(s.address, city)}

\* C18 as stated: a Site is returned iff it satisfies every supplied filter
\* (store number equal, has a VLAN with the number, has a VLAN whose address
\* contains the substring, address contains the substring).
C18_SiteLevelAnd ==
    (h_op = "search" /\ h_status = 200) =>
        h_body = SearchOut(SitesWithEveryFilter(h_args))

\* the pieces of term between its "%" characters, cur being the piece begun
RECURSIVE Segments(_, _)
Segments(term, cur) ==
    IF term = <<>> THEN <<cur>>
    ELSE IF Head(term) = "%" THEN <<cur>> \o Segments(Tail(term), <<>>)
    ELSE Segments(Tail(term), Append(cur, Head(term)))

\* piece stands in text after its first i characters, the ASCII letters
\* compared without case and "_" in piece standing for any one character
SegmentAt(text, piece, i) ==
    /\ i + Len(piece) <= Len(text)
    /\ \A k \in 1..Len(piece) :
          piece[k] = "_" \/ Lower(piece[k]) = Lower(text[i + k])

\* the pieces stand in text one after the other, the first after at least
\* from characters
RECURSIVE InOrder(_, _, _)
InOrder(text, pieces, from) ==
    \/ pieces = <<>>
    \/ \E i \in from..Len(text) :
          /\ SegmentAt(text, Head(pieces), i)
          /\ InOrder(text, Tail(pieces), i + Len(Head(pieces)))

\* text matches the filter term as a LIKE pattern anywhere in it: the ASCII
\* letters compared without case, "_" for any one character, "%" for any
\* run of characters
MatchesFilter(text, term) == InOrder(text, Segments(term, <<>>), 0)

\* the Sites that search returns: the VLAN filters hold of one and the same
\* VLAN of the Site, and the ip and city filters are LIKE patterns
SitesWithMatchingRow(args) ==
    {s \in sites :
        /\ \A store_num \in args.store : store_num \in s.store_number
        /\ \A city \in args.city : MatchesFilter(s.address, city)
        /\ (args.vlan # {} \/ args.ip # {}) =>
              \E v \in VlansOf(s.site_id) :
                  /\ \A vlan_num \in args.vlan : v.vlan_number = vlan_num
                  /\ \A ip_addr \in args.ip : MatchesFilter(v.ip_address, ip_addr)}

\* args with some of the filters of more taken away
Weaker(args, more) ==
    /\ args.store \subseteq more.store /\ args.vlan \subseteq more.vlan
    /\ args.ip \subseteq more.ip /\ args.city \subseteq more.city

\* C18, amended: search returns the Sites for which the store-number filter
\* holds, the address matches the city filter and, when a vlan or ip filter
\* is supplied, one VLAN of the Site has the given number and an address
\* that matches the ip filter; the ip and city filters match as LIKE
\* patterns anywhere in the text (ASCII letters without case, "_" for any
\* one character, "%" for any run); taking a filter away never removes a
\* Site from the result.  (A storage error of the SELECT is answered 500.)
C18_RowLevelAnd ==
    (h_op = "search" /\ h_status # 500) =>
        /\ h_status = 200
        /\ h_body = SearchOut(SitesWithMatchingRow(h_args))
        /\ \A args \in SearchArgs :
              Weaker(args, h_args) =>
                  h_body \subseteq SearchOut(SitesWithMatchingRow(args))

\* store 7 holds VLAN 10 and another VLAN whose address matches the ip
\* filter "7%2" through its wildcard: the search for both at once returns
\* nothing
C18_Witness ==
    /\ h_op = "search" /\ h_args.vlan = {10} /\ h_args.ip = {<<"7", "%", "2">>}
    /\ h_args.city = {} /\ h_status = 200 /\ h_body = {}
    /\ \E s \in sites :
          /\ \A store_num \in h_args.store : store_num \in s.store_number
          /\ \E v \in VlansOf(s.site_id) : v.vlan_number = 10
          /\ \E v \in VlansOf(s.site_id) :
                /\ MatchesFilter(v.ip_address, <<"7", "%", "2">>)
                /\ ~Contains(v.ip_address, <<"7", "%", "2">>)

StoreRows(S) == {<<s.store_number, s.site_name>> : s \in S}
ReturnedRows == UNION {{list[i] : i \in DOMAIN list} : list \in h_body}

\* C19 as stated: search_stores returns exactly the stores whose name or
\* address contains the term as a substring, and the empty list when none.
C19_ExactSubstring ==
    (h_op = "search_stores" /\ h_status = 0) =>
        /\ \E list \in h_body : DOMAIN list = 1..Len(list)
        /\ ReturnedRows =
              StoreRows({s \in sites : \/ Contains(s.site_name, h_args.search_term)
                                       \/ Contains(s.address, h_args.search_term)})

\* C19, amended: search_stores returns the stores whose name or address
\* contains the term compared without case and with "_" for any character:
\* every store that contains the term is among them; the result is a list,
\* empty when no store matches.  (A storage error of the SELECT is raised.)
C19_FoldedSubstring ==
    (h_op = "search_stores" /\ h_status = 0) =>
        /\ \E list \in h_body : DOMAIN list = 1..Len(list)
        /\ ReturnedRows =
              StoreRows({s \in sites : \/ ContainsFold(s.site_name, h_args.search_term)
                                       \/ ContainsFold(s.address, h_args.search_term)})
        /\ StoreRows({s \in sites : \/ Contains(s.site_name, h_args.search_term)
                                    \/ Contains(s.address, h_args.search_term)})
              \subseteq ReturnedRows

\* "main" finds the store at "123 Main St"
C19_Witness ==
    /\ h_op = "search_stores" /\ h_args.search_term = <<"m", "a", "i", "n">>
    /\ h_status = 0
    /\ \E s \in sites : /\ s.address = MainSt
                        /\ <<s.store_number, s.site_name>> \in ReturnedRows

\* C20: a request for a store number that no Site has is answered 404 by
\* GET /stores/{n}, GET /stores/{n}/details, GET /stores/{n}/switch-ips,
\* DELETE /stores/{n}, POST /vlans and POST /stores/{n}/switch-ips; PUT
\* /vlans/{n}/{v} and PUT and DELETE /stores/{n}/switch-ips/{ip} answer 404
\* when their statement matches no record and raises no storage error; a
\* request answered 404 leaves the stored state as it was.
BySite == {"get_store_switch_ips", "delete_store", "add_vlan", "post_switch_ip"}
ByRead == {"get_store_details", "get_store_complete_details"}
ByRecord == {"update_vlan", "update_switch_ip", "delete_switch_ip"}

\* the step answers a request of a handler of BySite for a store number that
\* no Site has, and the SELECT of the site_id raised no storage error
NoSiteBefore ==
    /\ h_op' \in BySite /\ h_pending' = h_pending /\ h_status' # 500
    /\ SiteIdsByStore(h_args'.store_number) = {}

\* the step answers a request of a handler of ByRecord whose statement
\* matches no record and raises no storage error
NoRecordBefore ==
    \/ h_op' = "update_vlan" /\ h_status' # 500
         /\ VlanRowsOfKeyByStore(h_args'.store_number, h_args'.vlan_number) = {}
    \/ h_op' \in {"update_switch_ip", "delete_switch_ip"} /\ h_status' # 500
         /\ SwitchRowsOfKeyByStore(h_args'.store_number, h_args'.ip_address) = {}

C20_NotFoundIs404 ==
    [][/\ h_calls' # h_calls =>
            /\ (NoSiteBefore \/ NoRecordBefore) => h_status' = 404
            /\ (h_op' \in ByRead /\ r_pc = "done" /\ r_site = {}) => h_status' = 404
            /\ (h_op' \in BySite \cup ByRead \cup ByRecord /\ h_status' = 404) =>
                  UNCHANGED db
       \* a request for a store number that no Site has goes no further than
       \* the SELECT of the site_id
       /\ \A req \in h_pending' \ h_pending :
            req.op \in BySite => SiteIdsByStore(req.args.store_number) # {}
       /\ (r_calls' # r_calls /\ SiteIdsByStore(r_store') = {}) =>
            (r_pc' \in {"done", "raised"} /\ r_site' = {} /\ r_result' = {})]_vars

\* PUT /vlans/{n}/{v} for a VLAN that the existing store does not have
C20_Witness ==
    /\ h_op = "update_vlan" /\ h_status = 404 /\ h_prev = {}
    /\ SiteIdsByStore(h_args.store_number) # {}

\* the records that the provisioning in p_site_id has written
ProvisionedVlans == {r \in vlan_configs : r.site_id = p_site_id}
ProvisionedSwitchIps == {r \in switch_ips : r.site_id = p_site_id}
ProvisionedServices == {r \in required_services : r.site_id = p_site_id}

\* C24: the switch addresses stored by provisioning store n have the first
\* three octets of the VLAN-60 address of n and the host octet 30 (first
\* switch) or 41 (second switch).
C24_SwitchAddresses ==
    /\ \A r \in ProvisionedSwitchIps :
          LET base == Split(generate_ip_for_store(p_data.store_number, 60))
              parts == Split(r.switch_ip)
          IN /\ Len(parts) = 4
             /\ \A i \in 1..3 : parts[i] = base[i]
             /\ parts[4] \in {<<"3", "0">>, <<"4", "1">>}
    /\ p_pc = "add_switch_ip2" =>
          \A r \in ProvisionedSwitchIps : Split(r.switch_ip)[4] = <<"3", "0">>

\* the provisioning has stored both switch addresses
C24_Witness ==
    /\ p_pc = "done"
    /\ {Split(r.switch_ip)[4] : r \in ProvisionedSwitchIps} = {<<"3", "0">>, <<"4", "1">>}

\* C25: every VLANConfig written by provisioning store n for VLAN v holds
\* generate_ip_for_store(n, v), netmask 255.255.255.0 and its own address
\* as gateway.
C25_ProvisionedVlanValues ==
    \A r \in ProvisionedVlans :
        /\ r.vlan_number \in VlanSet
        /\ r.ip_address = generate_ip_for_store(p_data.store_number, r.vlan_number)
        /\ r.netmask = <<"2", "5", "5", ".", "2", "5", "5", ".", "2", "5", "5", ".", "0">>
        /\ r.gateway = r.ip_address

\* a provisioning has written all nine VLANs
C25_Witness ==
    /\ p_pc = "done" /\ p_result = {TRUE}
    /\ {r.vlan_number : r \in ProvisionedVlans} = VlanSet

\* C28: no octet of an address generated for a store in 1..999 is written
\* with a leading zero.
C28_NoLeadingZero ==
    (a_ips # <<>> /\ a_store \in SupportedStores) =>
        \A v \in VlanSet :
            \A i \in DOMAIN Split(a_ips[v]) :
                LET octet == Split(a_ips[v])[i]
                IN Len(octet) = 1 \/ Head(octet) # "0"

\* C29: while add_store_with_vlans runs on a new site_id, the VLANs of the
\* site are the first k of 10, 20, ..., 90; a switch IP exists only when all
\* nine VLANs do; a service binding exists only after both switch-IP steps;
\* when add_site failed, the site_id has no VLAN, switch IP or service.
C29_FixedOrder ==
    /\ \E k \in 0..9 :
          {r.vlan_number : r \in ProvisionedVlans} = {10 * i : i \in 1..k}
    /\ ProvisionedSwitchIps # {} =>
          {r.vlan_number : r \in ProvisionedVlans} = {10 * i : i \in 1..9}
    /\ ProvisionedServices # {} =>
          p_pc \notin {"add_site", "add_vlan_config", "add_switch_ip1", "add_switch_ip2"}
    /\ (\A s \in sites : s.site_id # p_site_id) =>
          ProvisionedVlans = {} /\ ProvisionedSwitchIps = {} /\ ProvisionedServices = {}

\* the provisioning stopped at a VLAN that failed, after some were written
C29_Witness ==
    /\ p_pc = "done" /\ p_result = {FALSE}
    /\ Cardinality(ProvisionedVlans) \in 1..8
    /\ ProvisionedSwitchIps = {} /\ ProvisionedServices = {}

\* C21: PUT /stores/{n} and GET /stores/{n}/vlans answer 404 when no Site
\* has store number n, and PUT /stores/{n} confirms an update only when a
\* Site was updated.
C21_UnknownStoreIs404 ==
    [][h_calls' # h_calls =>
          /\ (h_op' = "update_store" /\ h_status' = 200) => h_prev' # {}
          /\ (h_op' = "update_store" /\ h_prev' = {} /\ h_status' # 500) =>
                h_status' = 404
          /\ (h_op' = "get_store_vlans" /\ r_pc = "done" /\ r_site = {}) =>
                h_status' = 404]_vars

\* C23: when an operation has returned, it holds no open connection.
C23_ConnectionsClosed == h_conns = 0

\* C26: no step changes the site_id or the store_number of a stored Site,
\* and PUT /stores/{n} leaves every Site with another store number and every
\* VLANConfig, SwitchIP, NetworkManagement and service record as it was; of
\* the Site with store number n it changes site_name, address, latitude and
\* longitude only.
SiteKeys(tbl) == {<<s.site_id, s.store_number>> : s \in tbl}

C26_UpdateStoreFrame ==
    [][/\ \A t \in sites' :
            (\E s \in sites : s.site_id = t.site_id) =>
                <<t.site_id, t.store_number>> \in SiteKeys(sites)
       /\ (h_calls' # h_calls /\ h_op' = "update_store") =>
            /\ UNCHANGED <<network_management, vlan_configs, switch_ips,
                           required_services>>
            /\ SiteKeys(sites') = SiteKeys(sites)
            /\ Cardinality(sites') = Cardinality(sites)
            /\ \A s \in sites :
                  h_args'.store_number \notin s.store_number => s \in sites']_vars

\* the address of store 7 was updated, its site_id and store number kept
C26_Witness ==
    /\ h_op = "update_store" /\ h_status = 200 /\ h_prev # {}
    /\ \E s \in sites : /\ s.store_number = {h_args.store_number}
                        /\ s.address = h_args.data.address
                        /\ \E t \in h_prev : t.site_id = s.site_id
                                              /\ t.address # s.address

\* C27: PUT /vlans/{n}/{v} and POST /vlans change only the VLANConfig with
\* key (site of n, v): every other VLANConfig and every Site and SwitchIP
\* record is as before.
\* the site of n: the site_id that the SELECT of the handler found
EditedSites ==
    IF h_op' = "add_vlan" THEN {req.site_id : req \in h_pending \ h_pending'}
    ELSE SiteIdsByStore(h_args'.store_number)

C27_VlanEditFrame ==
    [][(h_calls' # h_calls /\ h_op' \in {"update_vlan", "add_vlan"}) =>
          /\ UNCHANGED <<sites, switch_ips>>
          /\ \A r \in (vlan_configs \ vlan_configs') \cup (vlan_configs' \ vlan_configs) :
                /\ r.vlan_number = h_args'.vlan_number
                /\ r.site_id \in EditedSites]_vars

\* one VLAN of a store with nine VLANs was edited
C27_Witness ==
    /\ h_op = "update_vlan" /\ h_status = 200
    /\ \E r \in h_prev : r.ip_address # h_args.data.ip_address
    /\ \E s \in sites :
          /\ h_args.store_number \in s.store_number
          /\ Cardinality(VlansOf(s.site_id)) >= 9

\* C30: DELETE /stores/{n} leaves every Site with another store number and
\* every record of another site_id as it was, and DELETE
\* /stores/{n}/switch-ips/{ip} leaves the switch IPs of other sites as they
\* were, also those with the same address.
RowsOfOtherSites(tbl, store_number) ==
    {r \in tbl : \A s \in sites : store_number \in s.store_number => s.site_id # r.site_id}

\* the rows of tbl that the DELETE of the request may not touch: those with
\* another site_id than the one that the SELECT of the request found
RowsToKeep(tbl) ==
    {r \in tbl : \A req \in h_pending \ h_pending' : r.site_id # req.site_id}

C30_DeleteFrame ==
    [][/\ (h_calls' # h_calls /\ h_op' = "delete_store") =>
            /\ \A s \in sites : h_args'.store_number \notin s.store_number => s \in sites'
            /\ RowsToKeep(sites) \subseteq sites'
            /\ RowsToKeep(network_management) \subseteq network_management'
            /\ RowsToKeep(vlan_configs) \subseteq vlan_configs'
            /\ RowsToKeep(switch_ips) \subseteq switch_ips'
            /\ RowsToKeep(required_services) \subseteq required_services'
       /\ (h_calls' # h_calls /\ h_op' = "delete_switch_ip") =>
            /\ RowsOfOtherSites(switch_ips, h_args'.store_number) \subseteq switch_ips'
            /\ UNCHANGED <<sites, network_management, vlan_configs,
                           required_services>>]_vars

\* store 7 was deleted while store 8 holds a switch IP with an address that
\* a record of store 7 holds too
C30_Witness ==
    /\ h_op = "delete_store" /\ d_status = 200
    /\ \E s \in sites : s.store_number # {d_store}
    /\ \E a, b \in switch_ips : a.site_id # b.site_id /\ a.switch_ip = b.switch_ip

\* C22: the recentStores list of GET /dashboard holds the (up to) 5 stores
\* that were created last: the stores provisioned by POST /stores, which
\* were created after every store that the database held before, are in it.
C22_RecentStoresAreLatest ==
    (h_op = "dashboard" /\ h_status = 200) =>
        \A s \in h_prev :
            s.site_id[1] = "uuid" =>
                \A body \in h_body :
                    \E i \in DOMAIN body.recentStores :
                        body.recentStores[i] =
                            [store_number |-> s.store_number, site_name |-> s.site_name,
                             address |-> s.address]
====
